---- MODULE Spec2Model ----
(***************************************************************************)
(* A model of the request lifecycle of the Slack translation bot:          *)
(*   - main.py        FastAPI app, coroutines on one asyncio event loop    *)
(*   - api/slack.py   BaseHTTPRequestHandler, handler and worker threads   *)
(* Texts are sequences of code points.  A formatted string (an f-string    *)
(* around a text) is the record [pre, body, post].                         *)
(***************************************************************************)
EXTENDS Integers, Sequences, FiniteSets, TLC

\* ------------------------------------------------------------------ bounds

\* number of /translate commands that may be in the system at once
NumReq == 2

Req == 1..NumReq

Users == {"U1", "U2"}

\* raw command texts: "", " ", "a", "a " (32 = space, 97 = 'a')
RawTexts == {<<>>, <<32>>, <<97>>, <<97, 32>>}

\* response_url of a command: None or a hook address
ResponseUrls == {"None", "R1"}

Commands == {"/translate", "/other"}

\* what the upstream model may answer with: "H", " "
UpstreamContents == {<<72>>, <<32>>}

\* ------------------------------------------------------------- pure helpers

\* the characters str.strip() removes (ASCII whitespace)
Whitespace == {9, 10, 11, 12, 13, 32}

RECURSIVE lstrip(_)
lstrip(s) ==
    IF s # <<>> /\ Head(s) \in Whitespace THEN lstrip(Tail(s)) ELSE s

RECURSIVE rstrip(_)
rstrip(s) ==
    IF s # <<>> /\ s[Len(s)] \in Whitespace
    THEN rstrip(SubSeq(s, 1, Len(s) - 1))
    ELSE s

\* str.strip()
strip(s) == rstrip(lstrip(s))

\* a formatted string: the literal before, the text, the literal after
Fmt(pre, body, post) == [pre |-> pre, body |-> body, post |-> post]

\* a plain text as a formatted string
Plain(body) == Fmt("", body, "")

\* str.lower() on the code points of the model (A-Z -> a-z)
lower(s) == [i \in 1..Len(s) |-> IF s[i] >= 65 /\ s[i] <= 90 THEN s[i] + 32 ELSE s[i]]

\* `pat in s` for strings
Contains(s, pat) ==
    \E i \in 1..(Len(s) + 1) :
        /\ i + Len(pat) - 1 <= Len(s)
        /\ SubSeq(s, i, i + Len(pat) - 1) = pat

\* a detection whose lower bound is exclusive
mutant_detect_language(text) ==
    IF \E i \in 1..Len(text) : text[i] > 44032 /\ text[i] <= 55203
    THEN "ko"
    ELSE "en"

\* TranslationService.detect_language (main.py):
\* any('\uAC00' <= char <= '\uD7A3' for char in text)
detect_language(text) ==
    IF \E i \in 1..Len(text) : text[i] >= 44032 /\ text[i] <= 55203
    THEN "ko"
    ELSE "en"

\* SimpleTranslationService.detect_language (api/slack.py)
api_detect_language(text) ==
    IF \E i \in 1..Len(text) : 44032 <= text[i] /\ text[i] <= 55203
    THEN "ko"
    ELSE "en"

\* TranslationService.detect_language (src/services/translation.py)
bot_detect_language(text) ==
    IF \E i \in 1..Len(text) : 44032 <= text[i] /\ text[i] <= 55203
    THEN "ko"
    ELSE "en"

\* the text translate() returns when the upstream call raised (main.py)
translate_fallback(text) ==
    IF detect_language(text) = "ko"
    THEN IF Contains(text, <<53580, 49828, 53944>>) THEN Fmt("I will test this.", <<>>, "")
         ELSE IF Contains(text, <<50504, 45397>>) THEN Fmt("Hello.", <<>>, "")
         ELSE Fmt("Translation service error. Original: ", text, "")
    ELSE IF Contains(lower(text), <<116, 101, 115, 116>>) THEN Fmt("TEST_KO", <<>>, "")
         ELSE IF Contains(lower(text), <<104, 101, 108, 108, 111>>) THEN Fmt("HELLO_KO", <<>>, "")
         ELSE Fmt("SERVICE_ERROR_KO. Original: ", text, "")

\* the mock text translate() returns when the service is not configured (main.py)
translate_mock(text) ==
    IF detect_language(text) = "ko"
    THEN Fmt("[Mock] Hello (translation of: ", text, ")")
    ELSE Fmt("[Mock] HELLO_KO (translation: ", text, ")")

\* outcomes of the upstream chat.completions.create call
UpstreamOutcomes ==
    {[kind |-> "content", content |-> c] : c \in UpstreamContents}
        \cup {[kind |-> "none", content |-> <<>>], [kind |-> "raise", content |-> <<>>]}

\* a translate() that returns the upstream content or nothing
mutant_translate_result(text, outcome) ==
    IF outcome.kind = "content" THEN Plain(strip(outcome.content)) ELSE Plain(<<>>)

\* what translate() returns for an outcome of the upstream call (main.py)
translate_result(text, outcome) ==
    IF outcome.kind = "raise" THEN translate_fallback(text)
    ELSE IF outcome.kind = "none" THEN Fmt("Translation failed - empty response", <<>>, "")
    ELSE Plain(strip(outcome.content))

\* the upstream never answers
Never == [kind |-> "never", content |-> <<>>]

\* timeout=15 of the chat.completions.create call of main.py
translate_timeout == [bounded |-> TRUE, seconds |-> 15]

\* the create call of api/slack.py passes no timeout
api_translate_timeout == [bounded |-> FALSE, seconds |-> 0]

\* the create call of services/translation.py passes no timeout
bot_translate_timeout == [bounded |-> FALSE, seconds |-> 0]

\* how an upstream call made with a timeout argument can end for its caller:
\* a silent upstream makes a call with a bounded timeout raise, and leaves a
\* call without one waiting
upstream_outcomes(timeout) ==
    IF timeout.bounded THEN UpstreamOutcomes ELSE UpstreamOutcomes \cup {Never}

\* a translate() that lets the exception of its upstream call escape
mutant_translate_propagates(outcome) == outcome.kind = "raise"

\* translate(): does an outcome of the upstream call leave the function as
\* an exception (the call and the reading of the content are inside
\* try / except Exception, in main.py and in api/slack.py)
translate_propagates(outcome) == FALSE

\* get_request_id: the md5 prefix of f"{user_id}:{text}", a deterministic
\* function of the pair; the digest is modelled by the pair it is taken of
get_request_id(user_id, text) == <<user_id, text>>

\* a discard that removes nothing
mutant_discard(S, x) == S

\* a release that registers the id instead
mutant_keep(S, x) == S \cup {x}

\* a release that empties the registry
mutant_clear(S, x) == {}

\* a release that puts an absent id in (it toggles the membership)
mutant_toggle(S, x) == IF x \in S THEN S \ {x} ELSE S \cup {x}

\* set.discard
discard(S, x) == S \ {x}

\* does set.discard raise (set.remove would, on an absent element)
discard_raises(S, x) == FALSE

\* a duplicate check that never finds the id
mutant_is_duplicate(request_id, active) == FALSE

\* `request_id in active_requests` (main.py)
is_duplicate(request_id, active) == request_id \in active

\* a duplicate branch that drops the id it found
mutant_after_refusal(active, request_id) == active \ {request_id}

\* active_requests after the duplicate branch of slack_events: it logs and
\* returns, the set is not touched
after_refusal(active, request_id) == active

\* JSONResponse(content=s) for a string s: the body is json.dumps(s)
JSONResponse(s) == [status |-> 200, body |-> "\"" \o s \o "\""]

\* Response(status_code=200): an empty body
EmptyResponse == [status |-> 200, body |-> ""]

\* JSONResponse of the usage hint (main.py)
UsageResponse == [status |-> 200, body |-> "{usage}"]

NoResponse == [status |-> 0, body |-> ""]

\* view ids: None is <<>>, the view opened for command p is <<p>>
NoneView == <<>>

\* ----------------------------------------------------------- call log

\* one call the program makes, or one step of the registry, with its arguments
Ev(op, ref, url, text, translated) ==
    [op |-> op, ref |-> ref, url |-> url, text |-> text, translated |-> translated]

Ev0(op) == Ev(op, <<>>, "None", <<>>, Plain(<<>>))

Count(l, op) == Cardinality({i \in 1..Len(l) : l[i].op = op})

\* ------------------------------------------------------------------ main.py

VARIABLES
    program,            \* the entry point that is deployed: main.py or api/slack.py
    bot_token,          \* SLACK_BOT_TOKEN is set
    available,          \* translation_service.available
    active_requests,    \* main.py active_requests
    pc,                 \* where each command's coroutine / background task is
    cmd,                \* the form fields of each command (text stripped)
    view_id,            \* the view id open_initial_modal returned
    translated_text,    \* what translate() returned
    response,           \* the HTTP response slack_events returned
    site,               \* where in process_translation the pending post was made
    stage,              \* 1: the try block of process_translation, 2: its except block
    log,                \* the calls made for each command, in order
    api_active_requests,  \* api/slack.py active_requests
    api_pc,             \* where each command's handler / worker thread is
    api_cmd,            \* the form fields of each command (text as sent)
    api_modal,          \* processing_modal_success of each command
    api_translated,     \* translated_text of the worker thread
    api_responses,      \* the HTTP responses do_POST wrote, in order
    api_log,            \* the calls made for each command, in order
    elapsed,            \* main.py: time from the arrival of a command to its response
    api_elapsed         \* api/slack.py: time from arrival to the acknowledgment

\* src/bot.py: the slack_bolt app of the src package (handlers/command.py)
VARIABLES
    bot_pc,             \* where each command's handler is
    bot_cmd,            \* the command: user_id and stripped text
    bot_translated,     \* translated_text of show_translation_result_modal
    bot_log,            \* the calls made for each command, in order
    cache,              \* InMemoryCache._cache: key -> [value, expires]
    stats,              \* handlers/command.py stats
    now                 \* time.time()

\* the pure functions of the programs, applied outside any request
VARIABLES
    input,              \* the arguments of the function under study
    output              \* the results of its implementations, by name

\* the state of main.py and the state of api/slack.py
main_vars == <<active_requests, pc, cmd, view_id, translated_text, response, site, stage, log,
               elapsed>>

api_vars == <<api_active_requests, api_pc, api_cmd, api_modal, api_translated,
              api_responses, api_log, api_elapsed>>

\* what the actions of main.py leave alone, and what those of api/slack.py do
bot_vars == <<bot_pc, bot_cmd, bot_translated, bot_log, cache, stats, now>>

pure_vars == <<input, output>>

outside_main == <<api_vars, bot_vars, pure_vars>>

outside_api == <<main_vars, bot_vars, pure_vars>>

outside_bot == <<main_vars, api_vars, pure_vars>>

\* the deployment: entry point and environment
env == <<program, bot_token, available>>

vars == <<env, main_vars, api_vars, bot_vars, pure_vars>>

\* the Content-Type headers of a POST
FormType == "application/x-www-form-urlencoded"

JsonType == "application/json"

ContentTypes == {FormType, JsonType, "text/plain"}

\* the body of a JSON POST: text that does not parse, or an object with its
\* type and challenge (data.get('challenge', '') of an object without one
\* is '')
NoJson == [valid |-> FALSE, type |-> "", challenge |-> ""]

\* a body whose bytes are no UTF-8 text
Undecodable == [valid |-> FALSE, type |-> "bytes", challenge |-> ""]

JsonBodies ==
    {NoJson, Undecodable}
        \cup {[valid |-> TRUE, type |-> "url_verification", challenge |-> c] : c \in {"", "c1"}}
        \cup {[valid |-> TRUE, type |-> "event_callback", challenge |-> ""]}

\* the payload field of an interaction form: JSON text that parses or not
Payloads == {"json", "invalid"}

\* a request: its Content-Type, the fields of a form (payload "None": no
\* such field), the body of a JSON POST
NoCmd == [content_type |-> "", command |-> "", user_id |-> "", text |-> <<>>,
          response_url |-> "None", payload |-> "None", json |-> NoJson]

\* a slash command
FormCmd(command, user_id, text, response_url) ==
    [content_type |-> FormType, command |-> command, user_id |-> user_id,
     text |-> text, response_url |-> response_url, payload |-> "None", json |-> NoJson]

\* an interaction: a form with a payload field and no command
PayloadCmd(payload) ==
    [NoCmd EXCEPT !.content_type = FormType, !.payload = payload]

\* a command other than /translate: none of its other fields is read
OtherCmd(command) == FormCmd(command, "", <<>>, "None")

\* a POST that is no form: only its Content-Type and body are read
BodyCmd(content_type, body) ==
    [NoCmd EXCEPT !.content_type = content_type, !.json = body]

request_id_of(p) == get_request_id(cmd[p].user_id, cmd[p].text)

Programs == {"main.py", "api/slack.py", "src/bot.py"}

\* no function is under study
NoInput == [text |-> <<>>, max_chars |-> 0]

\* no request has arrived yet
Idle ==
    /\ active_requests = {}
    /\ pc = [p \in Req |-> "idle"]
    /\ cmd = [p \in Req |-> NoCmd]
    /\ view_id = [p \in Req |-> NoneView]
    /\ translated_text = [p \in Req |-> Plain(<<>>)]
    /\ response = [p \in Req |-> NoResponse]
    /\ site = [p \in Req |-> "direct"]
    /\ stage = [p \in Req |-> 1]
    /\ log = [p \in Req |-> <<>>]
    /\ api_active_requests = {}
    /\ api_pc = [p \in Req |-> "idle"]
    /\ api_cmd = [p \in Req |-> NoCmd]
    /\ api_modal = [p \in Req |-> FALSE]
    /\ api_translated = [p \in Req |-> Plain(<<>>)]
    /\ api_responses = [p \in Req |-> <<>>]
    /\ api_log = [p \in Req |-> <<>>]
    /\ elapsed = [p \in Req |-> 0]
    /\ api_elapsed = [p \in Req |-> 0]
    /\ bot_pc = [p \in Req |-> "idle"]
    /\ bot_cmd = [p \in Req |-> NoCmd]
    /\ bot_translated = [p \in Req |-> Plain(<<>>)]
    /\ bot_log = [p \in Req |-> <<>>]
    /\ cache = {}
    /\ stats = [total_translations |-> 0, user_translations |-> {}]
    /\ now = 0

Init ==
    /\ program \in Programs
    /\ bot_token \in BOOLEAN
    /\ available \in BOOLEAN
    /\ Idle
    /\ input = NoInput
    /\ output = {}

\* outcomes of a views.open / views.update call as the caller sees them:
\* ok, a not-ok answer, or an exception (a timeout included)
ApiOutcomes == {"ok", "not_ok", "raise"}

\* outcomes of the post to the response_url: 200, another status, an exception
PostOutcomes == {"200", "other", "raise"}

\* the outcomes the post of send_fallback_message can have for a
\* response_url: a post to None cannot be sent and raises
post_outcomes(url) == IF url = "None" THEN {"raise"} ELSE PostOutcomes

\* open_initial_modal: the view id it returns for an outcome of views.open
open_initial_modal_result(p, outcome) ==
    IF outcome = "ok" THEN <<p>> ELSE NoneView

\* a fallback only from the not-ok branch, none from the except branch
mutant_update_needs_fallback(outcome) == outcome = "not_ok"

\* update_modal_with_translation: does this outcome of views.update lead to
\* send_fallback_message (the not-ok branch and the except branch)
update_needs_fallback(outcome) == outcome # "ok"

\* a send_fallback_message that lets the exception of its post escape
mutant_send_fallback_propagates(outcome) == outcome = "raise"

\* send_fallback_message: does an outcome of its post leave the function as
\* an exception (the whole body is inside try / except Exception)
send_fallback_propagates(outcome) == FALSE

\* what a views.update call may have done at the platform, for the outcome
\* its caller sees: an ok answer says the view was updated, a not-ok answer
\* that it was not; when the call raises (the timeout ran out, the connection
\* broke, the answer is no JSON) the request may have been carried out or not
update_effects(outcome) ==
    IF outcome = "ok" THEN {TRUE}
    ELSE IF outcome = "not_ok" THEN {FALSE}
    ELSE BOOLEAN

\* a delivery that does not test view_id before updating the modal
mutant_first_delivery(view, token) ==
    IF token THEN "views.update" ELSE "message"

\* the first delivery call of process_translation once translate() returned:
\* views.update when a view was opened and the bot token is set, else the
\* message to the response_url (view_id None, or no token in update_modal)
first_delivery(view, token) ==
    IF view # NoneView /\ token THEN "views.update" ELSE "message"

\* where the first delivery call is made from: inside the try of
\* update_modal_with_translation, or directly from process_translation
first_site(view) == IF view # NoneView THEN "try" ELSE "direct"

\* the event of a delivery call of command p
delivery_event(p, op, tt) ==
    IF op = "views.update"
    THEN Ev("views.update", view_id[p], "None", cmd[p].text, tt)
    ELSE Ev("message", <<>>, cmd[p].response_url, cmd[p].text, tt)

\* the text shown by the except block of process_translation
error_text == Fmt("TRANSLATION_ERROR_KO: exception", <<>>, "")

\* process_translation at `if view_id:` (of the try block, stage 1, or of
\* the except block, stage 2), up to the next suspension
begin_delivery(p, tt, l, st) ==
    LET op == first_delivery(view_id[p], bot_token) IN
    /\ translated_text' = [translated_text EXCEPT ![p] = tt]
    /\ log' = [log EXCEPT ![p] = Append(l, delivery_event(p, op, tt))]
    /\ pc' = [pc EXCEPT ![p] = IF op = "views.update" THEN "update_wait" ELSE "send_wait"]
    /\ site' = [site EXCEPT ![p] = first_site(view_id[p])]
    /\ stage' = [stage EXCEPT ![p] = st]

\* the finally block of process_translation
release(p, l) ==
    /\ active_requests' = discard(active_requests, request_id_of(p))
    /\ log' = [log EXCEPT ![p] = Append(l, Ev0("release"))]
    /\ pc' = [pc EXCEPT ![p] = "done"]
    /\ UNCHANGED <<translated_text, site, stage>>

\* an exception reaches the except block of process_translation (stage 1:
\* it shows the error the same way) or its inner bare except (stage 2)
stage_raised(p, l) ==
    IF stage[p] = 1
    THEN /\ begin_delivery(p, error_text, l, 2)
         /\ UNCHANGED active_requests
    ELSE release(p, l)

\* the response to an unhandled exception of slack_events
InternalServerError == [status |-> 500, body |-> "{detail: Internal server error}"]

\* the JSON body {"challenge": c}
ChallengeResponse(c) == [status |-> 200, body |-> "{challenge: " \o c \o "}"]

\* a JSON branch that never answers the challenge
mutant_json_response(body) ==
    IF ~body.valid THEN InternalServerError ELSE EmptyResponse

\* slack_events, the JSON branch: request.json() raises on a body that does
\* not parse and the outer except turns that into HTTP 500; url_verification
\* is answered with the challenge; anything else gets the default response
json_response(body) ==
    IF ~body.valid THEN InternalServerError
    ELSE IF body.type = "url_verification" THEN ChallengeResponse(body.challenge)
    ELSE EmptyResponse

\* slack_events for a POST that is no slash command: a JSON body, a form
\* without command (an interaction), or another Content-Type
slack_events_other(p, c) ==
    /\ cmd' = [cmd EXCEPT ![p] = c]
    /\ response' = [response EXCEPT ![p] =
           IF c.content_type = JsonType THEN json_response(c.json) ELSE EmptyResponse]
    /\ pc' = [pc EXCEPT ![p] = "done"]
    /\ UNCHANGED <<active_requests, log>>

\* a form body that yields no field at all
EmptyForm == [NoCmd EXCEPT !.content_type = FormType]

\* the POSTs that are no slash command
OtherPosts ==
    {BodyCmd(JsonType, body) : body \in JsonBodies}
        \cup {BodyCmd("text/plain", NoJson), EmptyForm}
        \cup {PayloadCmd(payload) : payload \in Payloads}

\* slack_events, from the arrival of a POST to its first suspension (the
\* views.open post) or to its return
slack_events(p) ==
    /\ program = "main.py"
    /\ pc[p] = "idle"
    /\ \/ \E c \in OtherPosts : slack_events_other(p, c)
       \/ \E command \in Commands, user_id \in Users, raw \in RawTexts,
          response_url \in ResponseUrls :
         LET text == strip(raw)
             request_id == get_request_id(user_id, text)
             c == FormCmd(command, user_id, text, response_url)
         IN
         /\ cmd' = [cmd EXCEPT ![p] = IF command = "/translate" THEN c ELSE OtherCmd(command)]
         /\ IF command # "/translate"
            THEN /\ response' = [response EXCEPT ![p] = EmptyResponse]
                 /\ pc' = [pc EXCEPT ![p] = "done"]
                 /\ UNCHANGED <<active_requests, log>>
            ELSE IF is_duplicate(request_id, active_requests)
            THEN /\ response' = [response EXCEPT ![p] = JSONResponse("")]
                 /\ pc' = [pc EXCEPT ![p] = "done"]
                 /\ log' = [log EXCEPT ![p] = <<Ev0("refused")>>]
                 /\ active_requests' = after_refusal(active_requests, request_id)
            ELSE IF text # <<>>
            THEN /\ active_requests' = active_requests \cup {request_id}
                 /\ IF bot_token
                    THEN /\ log' = [log EXCEPT ![p] =
                                <<Ev0("admit"), Ev("views.open", <<p>>, "None", text, Plain(<<>>))>>]
                         /\ pc' = [pc EXCEPT ![p] = "open_wait"]
                         /\ UNCHANGED response
                    ELSE /\ log' = [log EXCEPT ![p] = <<Ev0("admit"), Ev0("response")>>]
                         /\ pc' = [pc EXCEPT ![p] = "responded"]
                         /\ response' = [response EXCEPT ![p] = EmptyResponse]
            ELSE /\ active_requests' =
                        discard(active_requests \cup {request_id}, request_id)
                 /\ log' = [log EXCEPT ![p] = <<Ev0("admit"), Ev0("release")>>]
                 /\ response' = [response EXCEPT ![p] = UsageResponse]
                 /\ pc' = [pc EXCEPT ![p] = "done"]
    /\ UNCHANGED <<outside_main, env, elapsed, view_id, translated_text, site, stage>>

\* timeout=10.0 of the views.open post of open_initial_modal
open_timeout == 10

\* slack_events resumes when views.open has answered, failed or timed out,
\* some time up to its timeout after the call: it queues the background task
\* and returns the empty 200 response
open_return(p) ==
    /\ program = "main.py"
    /\ pc[p] = "open_wait"
    /\ \E outcome \in ApiOutcomes :
         /\ view_id' = [view_id EXCEPT ![p] = open_initial_modal_result(p, outcome)]
         /\ log' = [log EXCEPT ![p] = Append(@, Ev0("response"))]
    /\ \E latency \in 0..open_timeout :
         elapsed' = [elapsed EXCEPT ![p] = latency]
    /\ response' = [response EXCEPT ![p] = EmptyResponse]
    /\ pc' = [pc EXCEPT ![p] = "responded"]
    /\ UNCHANGED <<outside_main, env, active_requests, cmd, translated_text, site, stage>>

\* a background task that may start while slack_events still awaits views.open
mutant_background_start(position) == position \in {"open_wait", "responded"}

\* background_tasks.add_task: the task is run by the framework once the
\* response of slack_events was returned
background_start(position) == position = "responded"

\* process_translation starts after the response was sent and runs to its
\* first suspension: the upstream call, or (service not configured, translate
\* returns the mock text at once) the first delivery call
process_translation_start(p) ==
    /\ program = "main.py"
    /\ background_start(pc[p])
    /\ IF available
       THEN /\ log' = [log EXCEPT ![p] = Append(@, Ev("translate", <<>>, "None", cmd[p].text, Plain(<<>>)))]
            /\ pc' = [pc EXCEPT ![p] = "translate_wait"]
            /\ UNCHANGED <<translated_text, site, stage>>
       ELSE begin_delivery(p, translate_mock(cmd[p].text), log[p], 1)
    /\ elapsed' = [elapsed EXCEPT ![p] = 0]
    /\ UNCHANGED <<outside_main, env, active_requests, cmd, view_id, response>>

\* the upstream call answers, raises or times out; translate() returns and
\* process_translation goes on to its first delivery call (an exception
\* leaving translate() would reach the except block of process_translation)
translate_return(p) ==
    /\ program = "main.py"
    /\ pc[p] = "translate_wait"
    /\ \E outcome \in upstream_outcomes(translate_timeout) :
         LET l == Append(log[p], Ev0("translate -> " \o outcome.kind)) IN
         IF outcome = Never
         THEN /\ pc' = [pc EXCEPT ![p] = "hung"]
              /\ UNCHANGED <<active_requests, translated_text, site, stage, log>>
         ELSE IF translate_propagates(outcome)
         THEN stage_raised(p, l)
         ELSE /\ begin_delivery(p, translate_result(cmd[p].text, outcome), l, 1)
              /\ UNCHANGED active_requests
    /\ UNCHANGED <<outside_main, env, elapsed, cmd, view_id, response>>

\* views.update answers: update_modal_with_translation returns on ok, and
\* calls send_fallback_message from its not-ok branch (inside the try) or
\* from its except branch
update_return(p) ==
    /\ program = "main.py"
    /\ pc[p] = "update_wait"
    /\ \E outcome \in ApiOutcomes : \E applied \in update_effects(outcome) :
         LET l == log[p] \o (IF applied THEN <<Ev0("platform: view updated")>> ELSE <<>>)
                        \o <<Ev0("views.update -> " \o outcome)>>
         IN
         IF update_needs_fallback(outcome)
         THEN /\ log' = [log EXCEPT ![p] =
                     Append(l, delivery_event(p, "message", translated_text[p]))]
              /\ pc' = [pc EXCEPT ![p] = "send_wait"]
              /\ site' = [site EXCEPT ![p] = IF outcome = "raise" THEN "except" ELSE "try"]
              /\ UNCHANGED <<active_requests, translated_text, stage>>
         ELSE release(p, l)
    /\ UNCHANGED <<outside_main, env, elapsed, cmd, view_id, response>>

\* the post of send_fallback_message ends.  It swallows every failure, so
\* its caller returns and the finally block of process_translation runs; an
\* exception leaving it would be caught by the except of
\* update_modal_with_translation (which sends again) or reach the except
\* block of process_translation
send_return(p) ==
    /\ program = "main.py"
    /\ pc[p] = "send_wait"
    /\ \E outcome \in post_outcomes(cmd[p].response_url) :
         LET l == Append(log[p], Ev0("message -> " \o outcome)) IN
         IF ~send_fallback_propagates(outcome)
         THEN release(p, l)
         ELSE IF site[p] = "try"
         THEN /\ log' = [log EXCEPT ![p] =
                     Append(l, delivery_event(p, "message", translated_text[p]))]
              /\ site' = [site EXCEPT ![p] = "except"]
              /\ UNCHANGED <<active_requests, pc, translated_text, stage>>
         ELSE stage_raised(p, l)
    /\ UNCHANGED <<outside_main, env, elapsed, cmd, view_id, response>>

NextMain ==
    \E p \in Req :
        \/ slack_events(p)
        \/ open_return(p)
        \/ process_translation_start(p)
        \/ translate_return(p)
        \/ update_return(p)
        \/ send_return(p)

\* -------------------------------------------------------------- api/slack.py

\* an HTTP response do_POST wrote: status, Content-type, body
HttpResponse(status, ctype, body) == [status |-> status, ctype |-> ctype, body |-> body]

\* the empty text/plain acknowledgment
EmptyAck == HttpResponse(200, "text/plain", "")

\* the "translating..." acknowledgment of the inline path
TranslatingAck == HttpResponse(200, "application/json", "{ephemeral: translating}")

\* the prompt of an empty command whose input modal did not open
UsagePrompt == HttpResponse(200, "application/json", "{ephemeral: provide text}")

\* the default response at the end of do_POST
DefaultResponse == HttpResponse(200, "application/json", "{status: received}")

\* the response of the outer except handler of do_POST
ErrorResponse == HttpResponse(500, "application/json", "{error: Internal server error}")

\* `request_id in active_requests` (api/slack.py)
api_is_duplicate(request_id, active) == request_id \in active

api_request_id_of(p) == get_request_id(api_cmd[p].user_id, api_cmd[p].text)

\* the text SimpleTranslationService.translate returns from its except branch
api_translate_fallback(text) ==
    IF api_detect_language(text) = "ko"
    THEN Fmt("[Fallback] Hello (translation of: ", text, ")")
    ELSE Fmt("[Fallback] HELLO_KO (translation: ", text, ")")

\* what SimpleTranslationService.translate returns for an outcome of the
\* upstream call: content None makes .strip() raise inside the try
api_translate_result(text, outcome) ==
    IF outcome.kind = "content"
    THEN Plain(strip(outcome.content))
    ELSE api_translate_fallback(text)

\* `not translated_text or translated_text.strip() == ""`
is_blank(tt) == tt.pre = "" /\ tt.post = "" /\ strip(tt.body) = <<>>

\* _call_slack_api seen from its caller: result.get('ok')
call_slack_api_ok(token, outcome) == token /\ outcome = "ok"

\* an inline path that posts whatever the response_url is
mutant_has_response_url(url) == TRUE

\* `if response_url:` of process_inline_translation
has_response_url(url) == url # "None"

\* process_translation (api/slack.py) after a failed views.push of the
\* results: what it does next (it logs the failure)
after_failed_update(p) == <<Ev0("log: failed to update modal")>>

\* the text/plain answer to url_verification
ChallengeAck(c) == HttpResponse(200, "text/plain", c)

\* do_POST for a POST that is no slash command: a body that is no UTF-8
\* text makes .decode('utf-8') raise and the outer except answers 500;
\* url_verification is answered with the challenge; a JSON body or a payload
\* that does not parse is only logged; everything else falls through to the
\* default response
do_POST_other(p, c) ==
    /\ api_cmd' = [api_cmd EXCEPT ![p] = c]
    /\ IF c.json = Undecodable
       THEN /\ api_responses' = [api_responses EXCEPT ![p] = <<ErrorResponse>>]
            /\ api_pc' = [api_pc EXCEPT ![p] = "done"]
       ELSE IF c.content_type = JsonType /\ c.json.valid /\ c.json.type = "url_verification"
       THEN /\ api_responses' = [api_responses EXCEPT ![p] = <<ChallengeAck(c.json.challenge)>>]
            /\ api_pc' = [api_pc EXCEPT ![p] = "done"]
       ELSE /\ api_pc' = [api_pc EXCEPT ![p] = "default"]
            /\ UNCHANGED api_responses
    /\ UNCHANGED api_log

\* do_POST up to the duplicate check of a /translate command; a duplicate is
\* acknowledged at once, every other command goes on
do_POST(p) ==
    /\ program = "api/slack.py"
    /\ api_pc[p] = "idle"
    /\ \/ \E c \in OtherPosts : do_POST_other(p, c)
       \/ \E command \in Commands, user_id \in Users, raw \in RawTexts,
          response_url \in ResponseUrls :
         LET c == FormCmd(command, user_id, raw, response_url)
             request_id == get_request_id(user_id, raw)
         IN
         /\ api_cmd' = [api_cmd EXCEPT ![p] =
                IF command = "/translate" THEN c ELSE OtherCmd(command)]
         /\ IF command # "/translate"
            THEN /\ api_pc' = [api_pc EXCEPT ![p] = "default"]
                 /\ UNCHANGED <<api_responses, api_log>>
            ELSE IF api_is_duplicate(request_id, api_active_requests)
            THEN /\ api_log' = [api_log EXCEPT ![p] = <<Ev0("refused")>>]
                 /\ \E io \in {"ok", "raise"} :
                      IF io = "ok"
                      THEN /\ api_responses' = [api_responses EXCEPT ![p] = <<EmptyAck>>]
                           /\ api_pc' = [api_pc EXCEPT ![p] = "done"]
                      ELSE /\ api_pc' = [api_pc EXCEPT ![p] = "default"]
                           /\ UNCHANGED api_responses
            ELSE /\ api_pc' = [api_pc EXCEPT ![p] = "add"]
                 /\ UNCHANGED <<api_responses, api_log>>
    /\ UNCHANGED <<outside_api, env, api_elapsed, api_active_requests,
                   api_modal, api_translated>>

\* active_requests.add(request_id), then the branch on text.strip()
do_POST_add(p) ==
    /\ program = "api/slack.py"
    /\ api_pc[p] = "add"
    /\ api_active_requests' = api_active_requests \cup {api_request_id_of(p)}
    /\ api_log' = [api_log EXCEPT ![p] = <<Ev0("admit")>>]
    /\ api_pc' = [api_pc EXCEPT ![p] =
           IF strip(api_cmd[p].text) # <<>> THEN "show_modal" ELSE "input_modal"]
    /\ UNCHANGED <<outside_api, env, api_elapsed, api_cmd, api_modal,
                   api_translated, api_responses>>

\* timeout=2 of the requests.post of _call_slack_api
api_timeout == 2

\* _show_processing_modal: views.open with the trigger_id (no call without
\* a bot token), answered some time up to its timeout after the call; every
\* failure is turned into False
show_processing_modal(p) ==
    /\ program = "api/slack.py"
    /\ api_pc[p] = "show_modal"
    /\ \E outcome \in ApiOutcomes, latency \in 0..api_timeout :
         /\ bot_token \/ (outcome = "not_ok" /\ latency = 0)
         /\ api_modal' = [api_modal EXCEPT ![p] = call_slack_api_ok(bot_token, outcome)]
         /\ api_elapsed' = [api_elapsed EXCEPT ![p] = latency]
    /\ api_log' = [api_log EXCEPT ![p] =
           IF bot_token
           THEN Append(@, Ev("views.open", <<p>>, "None", strip(api_cmd[p].text), Plain(<<>>)))
           ELSE @]
    /\ api_pc' = [api_pc EXCEPT ![p] = "ack"]
    /\ UNCHANGED <<outside_api, env, api_active_requests, api_cmd,
                   api_translated, api_responses>>

\* do_POST writes the acknowledgment and starts the worker thread; an
\* exception of either is caught by the except of the form parsing and
\* control falls through to the default response
do_POST_ack(p) ==
    /\ program = "api/slack.py"
    /\ api_pc[p] = "ack"
    /\ \E io \in {"ok", "ack_raise", "thread_raise"} :
         /\ api_responses' = [api_responses EXCEPT ![p] =
                IF io = "ack_raise" THEN @
                ELSE Append(@, IF api_modal[p] THEN EmptyAck ELSE TranslatingAck)]
         /\ api_log' = [api_log EXCEPT ![p] =
                IF io = "ack_raise" THEN @ ELSE Append(@, Ev0("ack"))]
         /\ api_pc' = [api_pc EXCEPT ![p] = IF io = "ok" THEN "thread" ELSE "default"]
    /\ api_elapsed' = [api_elapsed EXCEPT ![p] = 0]
    /\ UNCHANGED <<outside_api, env, api_active_requests, api_cmd,
                   api_modal, api_translated>>

\* the worker thread (process_translation / process_inline_translation):
\* translation_service.translate(text.strip())
thread_translate(p) ==
    /\ program = "api/slack.py"
    /\ api_pc[p] = "thread"
    /\ LET text == strip(api_cmd[p].text) IN
       IF available
       THEN \E outcome \in upstream_outcomes(api_translate_timeout) :
                 /\ api_translated' = [api_translated EXCEPT ![p] =
                        IF outcome = Never THEN @ ELSE api_translate_result(text, outcome)]
                 /\ api_log' = [api_log EXCEPT ![p] =
                        @ \o <<Ev0("thread"),
                               Ev("translate", <<>>, "None", text, Plain(<<>>))>>
                          \o (IF outcome = Never THEN <<>>
                              ELSE <<Ev0("translate -> " \o outcome.kind)>>)]
                 /\ api_pc' = [api_pc EXCEPT ![p] =
                        IF outcome = Never THEN "hung" ELSE "deliver"]
       ELSE /\ api_translated' = [api_translated EXCEPT ![p] = translate_mock(text)]
            /\ api_log' = [api_log EXCEPT ![p] = Append(@, Ev0("thread"))]
            /\ api_pc' = [api_pc EXCEPT ![p] = "deliver"]
    /\ UNCHANGED <<outside_api, env, api_elapsed, api_active_requests, api_cmd,
                   api_modal, api_responses>>

\* the worker thread delivers: the modal path pushes the results (or the
\* error view for a blank result) with the trigger_id; the inline path posts
\* to the response_url when there is one
thread_deliver(p) ==
    /\ program = "api/slack.py"
    /\ api_pc[p] = "deliver"
    /\ LET text == strip(api_cmd[p].text)
           tt == api_translated[p]
       IN
       IF api_modal[p]
       THEN IF is_blank(tt)
            THEN api_log' = [api_log EXCEPT ![p] =
                     Append(@, Ev("views.push error", <<p>>, "None", <<>>, Plain(<<>>)))]
            ELSE \E outcome \in ApiOutcomes :
                     api_log' = [api_log EXCEPT ![p] =
                         Append(@, Ev("views.push", <<p>>, "None", text, tt))
                             \o (IF call_slack_api_ok(bot_token, outcome)
                                 THEN <<>> ELSE after_failed_update(p))]
       ELSE IF has_response_url(api_cmd[p].response_url)
            THEN api_log' = [api_log EXCEPT ![p] =
                     Append(@, Ev("message", <<>>, api_cmd[p].response_url, text, tt))]
            ELSE UNCHANGED api_log
    /\ api_pc' = [api_pc EXCEPT ![p] = "finally"]
    /\ UNCHANGED <<outside_api, env, api_elapsed, api_active_requests, api_cmd,
                   api_modal, api_translated, api_responses>>

\* the finally block of the worker thread
thread_finally(p) ==
    /\ program = "api/slack.py"
    /\ api_pc[p] = "finally"
    /\ api_active_requests' = discard(api_active_requests, api_request_id_of(p))
    /\ api_log' = [api_log EXCEPT ![p] = Append(@, Ev0("release"))]
    /\ api_pc' = [api_pc EXCEPT ![p] = "done"]
    /\ UNCHANGED <<outside_api, env, api_elapsed, api_cmd, api_modal,
                   api_translated, api_responses>>

\* the empty command: _show_input_modal, then the response; an exception
\* while writing it skips the discard
do_POST_empty(p) ==
    /\ program = "api/slack.py"
    /\ api_pc[p] = "input_modal"
    /\ \E outcome \in ApiOutcomes, io \in {"ok", "raise"} :
         /\ bot_token \/ outcome = "not_ok"
         /\ api_responses' = [api_responses EXCEPT ![p] =
                IF io = "raise" THEN @
                ELSE Append(@, IF call_slack_api_ok(bot_token, outcome)
                               THEN EmptyAck ELSE UsagePrompt)]
         /\ api_pc' = [api_pc EXCEPT ![p] = IF io = "ok" THEN "empty_discard" ELSE "default"]
    /\ api_log' = [api_log EXCEPT ![p] =
           IF bot_token
           THEN Append(@, Ev("views.open", <<p>>, "None", <<>>, Plain(<<>>)))
           ELSE @]
    /\ UNCHANGED <<outside_api, env, api_elapsed, api_active_requests, api_cmd,
                   api_modal, api_translated>>

\* active_requests.discard(request_id) of the empty command, then return
do_POST_empty_discard(p) ==
    /\ program = "api/slack.py"
    /\ api_pc[p] = "empty_discard"
    /\ api_active_requests' = discard(api_active_requests, api_request_id_of(p))
    /\ api_log' = [api_log EXCEPT ![p] = Append(@, Ev0("release"))]
    /\ api_pc' = [api_pc EXCEPT ![p] = "done"]
    /\ UNCHANGED <<outside_api, env, api_elapsed, api_cmd, api_modal,
                   api_translated, api_responses>>

\* the default response at the end of do_POST; when writing it raises, the
\* outer handler writes the 500 response
do_POST_default(p) ==
    /\ program = "api/slack.py"
    /\ api_pc[p] = "default"
    /\ \E io \in {"ok", "raise"} :
         api_responses' = [api_responses EXCEPT ![p] =
             Append(@, IF io = "ok" THEN DefaultResponse ELSE ErrorResponse)]
    /\ api_pc' = [api_pc EXCEPT ![p] = "done"]
    /\ UNCHANGED <<outside_api, env, api_elapsed, api_active_requests, api_cmd,
                   api_modal, api_translated, api_log>>

NextApi ==
    \E p \in Req :
        \/ do_POST(p)
        \/ do_POST_add(p)
        \/ show_processing_modal(p)
        \/ do_POST_ack(p)
        \/ thread_translate(p)
        \/ thread_deliver(p)
        \/ thread_finally(p)
        \/ do_POST_empty(p)
        \/ do_POST_empty_discard(p)
        \/ do_POST_default(p)

\* ----------------------------------------- src/bot.py (handlers/command.py)

\* the ttl show_translation_result_modal caches a translation with
ttl == 3600

\* the clock advances in steps of TimeStep up to MaxNow
TimeStep == 1800

MaxNow == 7200

\* the text TranslationService.translate (services/translation.py) returns
\* without a client
bot_translate_unavailable(text) ==
    Fmt("Translation service unavailable. Original text: ", text, "")

\* the text it returns from its except branch
bot_translate_error == Fmt("Translation error: exception", <<>>, "")

\* what TranslationService.translate (services/translation.py) returns for
\* an outcome of its upstream call: content None makes .strip() raise
\* inside the try
bot_translate_result(text, outcome) ==
    IF outcome.kind = "content"
    THEN Plain(strip(outcome.content))
    ELSE bot_translate_error

\* the truth value of a str
truthy(tt) == tt.pre # "" \/ tt.body # <<>> \/ tt.post # ""

\* the key of a text: f"translate:{hash(original_text)}", a deterministic
\* function of the text, modelled by the text
cache_key(text) == text

\* a get that still returns the value at the moment of expiry
mutant_cache_get(c, key, t) ==
    IF \E e \in c : e.key = key /\ e.expires >= t
    THEN [none |-> FALSE, value |-> (CHOOSE e \in c : e.key = key).value]
    ELSE [none |-> TRUE, value |-> Plain(<<>>)]

\* InMemoryCache.get: the value of a live entry, else None
cache_get(c, key, t) ==
    IF \E e \in c : e.key = key /\ e.expires > t
    THEN [none |-> FALSE, value |-> (CHOOSE e \in c : e.key = key).value]
    ELSE [none |-> TRUE, value |-> Plain(<<>>)]

\* InMemoryCache.get deletes the entry it finds expired
cache_after_get(c, key, t) == {e \in c : ~(e.key = key /\ ~(e.expires > t))}

\* InMemoryCache.set
cache_set(c, key, value, t, life) ==
    {e \in c : e.key # key} \cup {[key |-> key, value |-> value, expires |-> t + life]}

\* InMemoryCache.delete: pop(key, None)
cache_delete(c, key) == {e \in c : e.key # key}

\* InMemoryCache.clear
cache_clear(c) == {}

\* a statistics update that counts the translation in the total only
mutant_stats_update(st, user_id) ==
    [total_translations |-> st.total_translations + 1,
     user_translations |-> st.user_translations]

\* the statistics update after a translation
stats_update(st, user_id) ==
    LET seen == {e \in st.user_translations : e.user = user_id}
        count == IF seen = {} THEN 0 ELSE (CHOOSE e \in seen : TRUE).count
    IN [total_translations |-> st.total_translations + 1,
        user_translations |->
            (st.user_translations \ seen) \cup {[user |-> user_id, count |-> count + 1]}]

\* what ends the handling of a command in the App of bot.py, which is
\* created with process_before_response=True: ack() only records the
\* acknowledgment, and the HTTP response goes out when the listener returns
listener_returns == <<Ev0("response")>>

\* handle_translate_command: ack(), then the branch on the stripped text
handle_translate_command(p) ==
    /\ program = "src/bot.py"
    /\ bot_pc[p] = "idle"
    /\ \E user_id \in Users, raw \in RawTexts :
         LET text == strip(raw) IN
         /\ bot_cmd' = [bot_cmd EXCEPT ![p] = FormCmd("/translate", user_id, text, "None")]
         /\ bot_pc' = [bot_pc EXCEPT ![p] = IF text = <<>> THEN "input_modal" ELSE "cache_get"]
    /\ bot_log' = [bot_log EXCEPT ![p] = <<Ev0("ack")>>]
    /\ UNCHANGED <<outside_bot, env, bot_translated, cache, stats, now>>

\* show_translation_input_modal: views_open, every failure swallowed
show_translation_input_modal(p) ==
    /\ program = "src/bot.py"
    /\ bot_pc[p] = "input_modal"
    /\ bot_log' = [bot_log EXCEPT ![p] =
           Append(@, Ev("views.open", <<p>>, "None", <<>>, Plain(<<>>))) \o listener_returns]
    /\ bot_pc' = [bot_pc EXCEPT ![p] = "done"]
    /\ UNCHANGED <<outside_bot, env, bot_cmd, bot_translated, cache, stats, now>>

\* show_translation_result_modal: cache.get and `if cached_result:`
result_modal_cache_get(p) ==
    /\ program = "src/bot.py"
    /\ bot_pc[p] = "cache_get"
    /\ LET key == cache_key(bot_cmd[p].text)
           cached_result == cache_get(cache, key, now)
       IN
       /\ cache' = cache_after_get(cache, key, now)
       /\ bot_log' = [bot_log EXCEPT ![p] = Append(@, Ev0("cache.get"))]
       /\ IF ~cached_result.none /\ truthy(cached_result.value)
          THEN /\ bot_translated' = [bot_translated EXCEPT ![p] = cached_result.value]
               /\ bot_pc' = [bot_pc EXCEPT ![p] = "views_open"]
          ELSE /\ bot_pc' = [bot_pc EXCEPT ![p] = "translate"]
               /\ UNCHANGED bot_translated
    /\ UNCHANGED <<outside_bot, env, bot_cmd, stats, now>>

\* show_translation_result_modal: translation_service.translate
result_modal_translate(p) ==
    /\ program = "src/bot.py"
    /\ bot_pc[p] = "translate"
    /\ LET text == bot_cmd[p].text IN
       IF available
       THEN \E outcome \in upstream_outcomes(bot_translate_timeout) :
                /\ bot_translated' = [bot_translated EXCEPT ![p] =
                       IF outcome = Never THEN @ ELSE bot_translate_result(text, outcome)]
                /\ bot_log' = [bot_log EXCEPT ![p] =
                       Append(@, Ev("translate", <<>>, "None", text, Plain(<<>>)))
                         \o (IF outcome = Never THEN <<>>
                             ELSE <<Ev0("translate -> " \o outcome.kind)>>)]
                /\ bot_pc' = [bot_pc EXCEPT ![p] =
                       IF outcome = Never THEN "hung" ELSE "cache_set"]
       ELSE /\ bot_translated' = [bot_translated EXCEPT ![p] =
                   bot_translate_unavailable(text)]
            /\ bot_pc' = [bot_pc EXCEPT ![p] = "cache_set"]
            /\ UNCHANGED bot_log
    /\ UNCHANGED <<outside_bot, env, bot_cmd, cache, stats, now>>

\* show_translation_result_modal: cache.set with ttl=3600
result_modal_cache_set(p) ==
    /\ program = "src/bot.py"
    /\ bot_pc[p] = "cache_set"
    /\ cache' = cache_set(cache, cache_key(bot_cmd[p].text), bot_translated[p], now, ttl)
    /\ bot_log' = [bot_log EXCEPT ![p] = Append(@, Ev0("cache.set"))]
    /\ bot_pc' = [bot_pc EXCEPT ![p] = "stats"]
    /\ UNCHANGED <<outside_bot, env, bot_cmd, bot_translated, stats, now>>

\* show_translation_result_modal: the statistics update
result_modal_stats(p) ==
    /\ program = "src/bot.py"
    /\ bot_pc[p] = "stats"
    /\ stats' = stats_update(stats, bot_cmd[p].user_id)
    /\ bot_pc' = [bot_pc EXCEPT ![p] = "views_open"]
    /\ UNCHANGED <<outside_bot, env, bot_cmd, bot_translated, bot_log, cache, now>>

\* show_translation_result_modal: views_open with the result; every
\* failure is swallowed by the except of the function
result_modal_views_open(p) ==
    /\ program = "src/bot.py"
    /\ bot_pc[p] = "views_open"
    /\ bot_log' = [bot_log EXCEPT ![p] =
           Append(@, Ev("views.open", <<p>>, "None", bot_cmd[p].text, bot_translated[p]))
               \o listener_returns]
    /\ bot_pc' = [bot_pc EXCEPT ![p] = "done"]
    /\ UNCHANGED <<outside_bot, env, bot_cmd, bot_translated, cache, stats, now>>

\* a view submission or an event as the handlers read it: its kind, the
\* user and the text
EventCmd(kind, user_id, text) ==
    [NoCmd EXCEPT !.command = kind, !.user_id = user_id, !.text = text]

\* translation_service.translate as the handlers other than the command
\* handler await it: from one position of the handler to the next
translate_step(p, to) ==
    LET text == bot_cmd[p].text IN
    IF available
    THEN \E outcome \in upstream_outcomes(bot_translate_timeout) :
             /\ bot_translated' = [bot_translated EXCEPT ![p] =
                    IF outcome = Never THEN @ ELSE bot_translate_result(text, outcome)]
             /\ bot_log' = [bot_log EXCEPT ![p] =
                    Append(@, Ev("translate", <<>>, "None", text, Plain(<<>>)))
                      \o (IF outcome = Never THEN <<>>
                          ELSE <<Ev0("translate -> " \o outcome.kind)>>)]
             /\ bot_pc' = [bot_pc EXCEPT ![p] = IF outcome = Never THEN "hung" ELSE to]
    ELSE /\ bot_translated' = [bot_translated EXCEPT ![p] = bot_translate_unavailable(text)]
         /\ bot_pc' = [bot_pc EXCEPT ![p] = to]
         /\ UNCHANGED bot_log

\* handle_translation_input_modal: ack(), the text of the submitted view;
\* a blank text ends the handler
handle_translation_input_modal(p) ==
    /\ program = "src/bot.py"
    /\ bot_pc[p] = "idle"
    /\ \E user_id \in Users, raw \in RawTexts :
         LET text_input == strip(raw) IN
         /\ bot_cmd' = [bot_cmd EXCEPT ![p] = EventCmd("view_submission", user_id, text_input)]
         /\ bot_pc' = [bot_pc EXCEPT ![p] =
                IF text_input = <<>> THEN "done" ELSE "update_translate"]
         /\ bot_log' = [bot_log EXCEPT ![p] =
                <<Ev0("ack")>> \o (IF text_input = <<>> THEN listener_returns ELSE <<>>)]
    /\ UNCHANGED <<outside_bot, env, bot_translated, cache, stats, now>>

\* show_translation_result_update: translate, without the cache
result_update_translate(p) ==
    /\ program = "src/bot.py"
    /\ bot_pc[p] = "update_translate"
    /\ translate_step(p, "update_stats")
    /\ UNCHANGED <<outside_bot, env, bot_cmd, cache, stats, now>>

\* show_translation_result_update: the statistics update
result_update_stats(p) ==
    /\ program = "src/bot.py"
    /\ bot_pc[p] = "update_stats"
    /\ stats' = stats_update(stats, bot_cmd[p].user_id)
    /\ bot_pc' = [bot_pc EXCEPT ![p] = "views_update"]
    /\ UNCHANGED <<outside_bot, env, bot_cmd, bot_translated, bot_log, cache, now>>

\* show_translation_result_update: views_update with the result; every
\* failure is swallowed by the except of the function
result_update_views_update(p) ==
    /\ program = "src/bot.py"
    /\ bot_pc[p] = "views_update"
    /\ bot_log' = [bot_log EXCEPT ![p] =
           Append(@, Ev("views.update", <<p>>, "None", bot_cmd[p].text, bot_translated[p]))
               \o listener_returns]
    /\ bot_pc' = [bot_pc EXCEPT ![p] = "done"]
    /\ UNCHANGED <<outside_bot, env, bot_cmd, bot_translated, cache, stats, now>>

\* ------------------------------------------ src/bot.py (handlers/events.py)

\* the reply of a handler that was given no text
no_text_prompt == Fmt("Please provide text to translate!", <<>>, "")

\* the start of handle_app_mention and of handle_direct_message: the
\* text (for a mention, what follows the mention), stripped; without
\* text the handler replies with a prompt and returns
event_received(p, kind) ==
    /\ program = "src/bot.py"
    /\ bot_pc[p] = "idle"
    /\ \E user \in Users, raw \in RawTexts :
         LET text == strip(raw) IN
         /\ bot_cmd' = [bot_cmd EXCEPT ![p] = EventCmd(kind, user, text)]
         /\ bot_pc' = [bot_pc EXCEPT ![p] = IF text = <<>> THEN "done" ELSE "event_cache_get"]
         /\ bot_log' = [bot_log EXCEPT ![p] =
                IF text = <<>> THEN <<Ev("say", <<>>, "None", <<>>, no_text_prompt)>> ELSE <<>>]
    /\ UNCHANGED <<outside_bot, env, bot_translated, cache, stats, now>>

handle_app_mention(p) == event_received(p, "app_mention")

handle_direct_message(p) == event_received(p, "message")

\* the reactions an event can carry
Reactions == {"globe_with_meridians", "thumbsup"}

\* handle_reaction_added: another reaction is ignored; the message is
\* fetched with conversations_history, which may raise or find no
\* message; a message without text is ignored
handle_reaction_added(p) ==
    /\ program = "src/bot.py"
    /\ bot_pc[p] = "idle"
    /\ \E reaction \in Reactions, user \in Users, raw \in RawTexts, history \in ApiOutcomes :
         LET text == strip(raw)
             found == reaction = "globe_with_meridians" /\ history = "ok" /\ text # <<>>
         IN
         /\ bot_cmd' = [bot_cmd EXCEPT ![p] =
                EventCmd("reaction_added", user, IF found THEN text ELSE <<>>)]
         /\ bot_pc' = [bot_pc EXCEPT ![p] = IF found THEN "event_cache_get" ELSE "done"]
         /\ bot_log' = [bot_log EXCEPT ![p] =
                IF reaction = "globe_with_meridians"
                THEN <<Ev0("conversations.history")>> ELSE <<>>]
    /\ UNCHANGED <<outside_bot, env, bot_translated, cache, stats, now>>

\* the three event handlers: cache.get and `if cached_result:`; on a hit
\* the mention and the direct-message handler reply and return, the
\* reaction handler goes on to the statistics
event_cache_get(p) ==
    /\ program = "src/bot.py"
    /\ bot_pc[p] = "event_cache_get"
    /\ LET key == cache_key(bot_cmd[p].text)
           cached_result == cache_get(cache, key, now)
       IN
       /\ cache' = cache_after_get(cache, key, now)
       /\ bot_log' = [bot_log EXCEPT ![p] = Append(@, Ev0("cache.get"))]
       /\ IF ~cached_result.none /\ truthy(cached_result.value)
          THEN /\ bot_translated' = [bot_translated EXCEPT ![p] = cached_result.value]
               /\ bot_pc' = [bot_pc EXCEPT ![p] =
                      IF bot_cmd[p].command = "reaction_added" THEN "event_stats" ELSE "say"]
          ELSE /\ bot_pc' = [bot_pc EXCEPT ![p] = "event_translate"]
               /\ UNCHANGED bot_translated
    /\ UNCHANGED <<outside_bot, env, bot_cmd, stats, now>>

\* the three event handlers: translation_service.translate
event_translate(p) ==
    /\ program = "src/bot.py"
    /\ bot_pc[p] = "event_translate"
    /\ translate_step(p, "event_cache_set")
    /\ UNCHANGED <<outside_bot, env, bot_cmd, cache, stats, now>>

\* the three event handlers: cache.set with ttl=3600
event_cache_set(p) ==
    /\ program = "src/bot.py"
    /\ bot_pc[p] = "event_cache_set"
    /\ cache' = cache_set(cache, cache_key(bot_cmd[p].text), bot_translated[p], now, ttl)
    /\ bot_log' = [bot_log EXCEPT ![p] = Append(@, Ev0("cache.set"))]
    /\ bot_pc' = [bot_pc EXCEPT ![p] = "event_stats"]
    /\ UNCHANGED <<outside_bot, env, bot_cmd, bot_translated, stats, now>>

\* the three event handlers: the statistics update
event_stats(p) ==
    /\ program = "src/bot.py"
    /\ bot_pc[p] = "event_stats"
    /\ stats' = stats_update(stats, bot_cmd[p].user_id)
    /\ bot_pc' = [bot_pc EXCEPT ![p] = "say"]
    /\ UNCHANGED <<outside_bot, env, bot_cmd, bot_translated, bot_log, cache, now>>

\* the reply: say in the mention and the direct-message handler,
\* chat_postMessage in the reaction handler
event_say(p) ==
    /\ program = "src/bot.py"
    /\ bot_pc[p] = "say"
    /\ bot_log' = [bot_log EXCEPT ![p] =
           Append(@, Ev(IF bot_cmd[p].command = "reaction_added"
                        THEN "chat.postMessage" ELSE "say",
                        <<>>, "None", bot_cmd[p].text, bot_translated[p]))]
    /\ bot_pc' = [bot_pc EXCEPT ![p] = "done"]
    /\ UNCHANGED <<outside_bot, env, bot_cmd, bot_translated, cache, stats, now>>

\* time passes
Tick ==
    /\ program = "src/bot.py"
    /\ now + TimeStep <= MaxNow
    /\ now' = now + TimeStep
    /\ UNCHANGED <<outside_bot, env, bot_pc, bot_cmd, bot_translated, bot_log, cache, stats>>

NextBot ==
    \/ \E p \in Req :
        \/ handle_translate_command(p)
        \/ show_translation_input_modal(p)
        \/ result_modal_cache_get(p)
        \/ result_modal_translate(p)
        \/ result_modal_cache_set(p)
        \/ result_modal_stats(p)
        \/ result_modal_views_open(p)
        \/ handle_translation_input_modal(p)
        \/ result_update_translate(p)
        \/ result_update_stats(p)
        \/ result_update_views_update(p)
        \/ handle_app_mention(p)
        \/ handle_direct_message(p)
        \/ handle_reaction_added(p)
        \/ event_cache_get(p)
        \/ event_translate(p)
        \/ event_cache_set(p)
        \/ event_stats(p)
        \/ event_say(p)
    \/ Tick

\* src/bot.py alone
InitBot ==
    /\ program = "src/bot.py"
    /\ bot_token \in BOOLEAN
    /\ available \in BOOLEAN
    /\ Idle
    /\ input = NoInput
    /\ output = {}

SpecBot == InitBot /\ [][NextBot]_vars

Next == NextMain \/ NextApi \/ NextBot

Spec == Init /\ [][Next]_vars

\* main.py alone, with the scheduling its event loop gives: every pending
\* await ends (each call carries a timeout) and every queued background
\* task is run
MainFairness ==
    \A p \in Req :
        /\ WF_vars(open_return(p))
        /\ WF_vars(process_translation_start(p))
        /\ WF_vars(translate_return(p))
        /\ WF_vars(update_return(p))
        /\ WF_vars(send_return(p))

InitMain == Init /\ program = "main.py"

\* main.py alone
SpecMain == InitMain /\ [][NextMain]_vars

SpecMainFair == SpecMain /\ MainFairness

\* ---------------------------------------------------------- pure functions

\* the longest text a function is applied to
MaxLen == 2

\* the texts of at most n characters over an alphabet
TextsUpTo(chars, n) == UNION {[1..k -> chars] : k \in 0..n}

\* an implementation returns: its result is recorded under its name
returns(study, impl, value) ==
    /\ program = study
    /\ \A e \in output : e.impl # impl
    /\ output' = output \cup {[impl |-> impl, value |-> value]}
    /\ UNCHANGED <<env, main_vars, api_vars, bot_vars, input>>

\* the characters detect_language is applied to: space, 'a', and the
\* characters at and next to the ends of the range U+AC00..U+D7A3
DetectChars == {32, 97, 44031, 44032, 55203, 55204}

\* detect_language of the three modules applied to one text
InitDetect ==
    /\ program = "detect_language"
    /\ bot_token = FALSE
    /\ available = FALSE
    /\ Idle
    /\ input \in {[text |-> t, max_chars |-> 0] : t \in TextsUpTo(DetectChars, MaxLen)}
    /\ output = {}

detect_main == returns("detect_language", "main.py", detect_language(input.text))

detect_api == returns("detect_language", "api/slack.py", api_detect_language(input.text))

detect_bot ==
    returns("detect_language", "src/services/translation.py", bot_detect_language(input.text))

NextDetect == detect_main \/ detect_api \/ detect_bot

SpecDetect == InitDetect /\ [][NextDetect]_vars

\* the longest text the chunking is applied to, and the largest max_chars
MaxChunkLen == 4

MaxChars == 3

\* a window that always reaches to the end of the text
mutant_min2(a, b) == b

min2(a, b) == IF a <= b THEN a ELSE b

max2(a, b) == IF a >= b THEN a ELSE b

\* text[start:end], with the 0-based indices of the source
slice(text, start, end) == SubSeq(text, start + 1, end)

\* text.rfind(pat, start, end): the highest index at which pat occurs
\* inside text[start:end], or -1
rfind(text, pat, start, end) ==
    LET hits == {i \in start..(end - Len(pat)) : slice(text, i, i + Len(pat)) = pat}
    IN IF hits = {} THEN -1 ELSE CHOOSE i \in hits : \A j \in hits : j <= i

\* f"```{chunk}```" (96 = '`')
code_block(chunk) == <<96, 96, 96>> \o chunk \o <<96, 96, 96>>

\* a loop that steps over the character it broke at
mutant_next_start(end) == end + 1

\* `start = end` at the end of the loop body
next_start(end) == end

\* the while loop of the chunking routines from a value of start on;
\* newline is the string the routine searches for next to ' '
RECURSIVE chunk_loop(_, _, _, _)
chunk_loop(text, max_chars, newline, start) ==
    IF ~(start < Len(text)) THEN <<>>
    ELSE LET limit == min2(start + max_chars, Len(text))
             last_space == rfind(text, <<32>>, start, limit)
             last_newline == rfind(text, newline, start, limit)
             break_point == max2(last_space, last_newline)
             end == IF limit < Len(text) /\ break_point > start THEN break_point ELSE limit
         IN <<code_block(slice(text, start, end))>>
                \o chunk_loop(text, max_chars, newline, next_start(end))

\* a chunking routine: one block for a text within max_chars, else the loop
chunks(text, max_chars, newline) ==
    IF Len(text) <= max_chars
    THEN <<code_block(text)>>
    ELSE chunk_loop(text, max_chars, newline, 0)

\* create_text_blocks of main.py: rfind('\n'), the newline character
create_text_blocks(text, max_chars) == chunks(text, max_chars, <<10>>)

\* create_text_blocks of process_inline_translation (api/slack.py):
\* rfind('\\n'), a backslash followed by 'n'
api_create_text_blocks(text, max_chars) == chunks(text, max_chars, <<92, 110>>)

\* create_text_sections of _update_translation_modal_with_results
\* (api/slack.py): rfind('\\n') as well
create_text_sections(text, max_chars) == chunks(text, max_chars, <<92, 110>>)

\* create_text_sections of _show_translation_modal (api/slack.py):
\* rfind('\n'), the newline character
modal_create_text_sections(text, max_chars) == chunks(text, max_chars, <<10>>)

\* the characters the chunking is applied to: space, newline, backslash,
\* 'n' and 'a'
ChunkChars == {32, 10, 92, 110, 97}

\* the chunking routines applied to one text with one max_chars
InitChunk ==
    /\ program = "create_text_blocks"
    /\ bot_token = FALSE
    /\ available = FALSE
    /\ Idle
    /\ input \in {[text |-> t, max_chars |-> m] :
                      t \in TextsUpTo(ChunkChars, MaxChunkLen), m \in 1..MaxChars}
    /\ output = {}

chunk_main ==
    returns("create_text_blocks", "main.py create_text_blocks",
            create_text_blocks(input.text, input.max_chars))

chunk_api_blocks ==
    returns("create_text_blocks", "api/slack.py create_text_blocks",
            api_create_text_blocks(input.text, input.max_chars))

chunk_api_sections ==
    returns("create_text_blocks", "api/slack.py create_text_sections",
            create_text_sections(input.text, input.max_chars))

chunk_api_modal ==
    returns("create_text_blocks", "api/slack.py _show_translation_modal",
            modal_create_text_sections(input.text, input.max_chars))

NextChunk == chunk_main \/ chunk_api_blocks \/ chunk_api_sections \/ chunk_api_modal

SpecChunk == InitChunk /\ [][NextChunk]_vars

\* the languages translate is called with: None (not given), 'ko', 'en' and
\* one more
Langs == {"None", "ko", "en", "ja"}

\* `if source_lang is None: source_lang = self.detect_language(text)`
source_of(text, source_lang) ==
    IF source_lang = "None" THEN bot_detect_language(text) ELSE source_lang

\* `if target_lang is None: target_lang = 'en' if source_lang == 'ko' else 'ko'`
target_of(source_lang, target_lang) ==
    IF target_lang = "None"
    THEN (IF source_lang = "ko" THEN "en" ELSE "ko")
    ELSE target_lang

\* TranslationService.translate of services/translation.py with a client
\* that is set or None, for an outcome of the upstream call: what it returns
\* and how many upstream calls it made
bot_translate(text, source_lang, target_lang, client, outcome) ==
    LET source == source_of(text, source_lang)
        target == target_of(source, target_lang)
    IN IF strip(text) = <<>> THEN [calls |-> 0, value |-> Plain(text)]
       ELSE IF ~client THEN [calls |-> 0, value |-> bot_translate_unavailable(text)]
       ELSE IF source = target THEN [calls |-> 0, value |-> Plain(text)]
       ELSE [calls |-> 1, value |-> bot_translate_result(text, outcome)]

\* the characters translate is applied to: space, 'a' and a Hangul syllable
TranslateChars == {32, 97, 44032}

\* translate applied to one text, with the languages given or not and the
\* client set or None
InitTranslate ==
    /\ program = "translate"
    /\ bot_token = FALSE
    /\ available = FALSE
    /\ Idle
    /\ input \in {[text |-> t, source_lang |-> sl, target_lang |-> tl, client |-> c] :
                      t \in TextsUpTo(TranslateChars, MaxLen), sl \in Langs, tl \in Langs,
                      c \in BOOLEAN}
    /\ output = {}

translate_bot ==
    \E outcome \in UpstreamOutcomes :
        returns("translate", "src/services/translation.py",
                bot_translate(input.text, input.source_lang, input.target_lang,
                              input.client, outcome))

NextTranslate == translate_bot

SpecTranslate == InitTranslate /\ [][NextTranslate]_vars

\* the keys, values and ttls the cache operations are applied with: the 
\* values are "H" and the empty string
CacheKeys == {<<97>>, <<98>>}

CacheValues == {Plain(<<72>>), Plain(<<>>)}

Ttls == {TimeStep, ttl}

\* an empty InMemoryCache at time 0; input records, for each key, the
\* latest set that no delete or clear has followed, output the last get
InitCache ==
    /\ program = "InMemoryCache"
    /\ bot_token = FALSE
    /\ available = FALSE
    /\ Idle
    /\ input = {}
    /\ output = {}

\* what a step of the cache study leaves alone
outside_cache == <<env, main_vars, api_vars, bot_pc, bot_cmd, bot_translated, bot_log, stats>>

\* is this the first, third, ... get (the gets are told apart by turns)
odd_get == \A e \in output : ~e.value.odd

\* await cache.set(key, value, ttl)
InMemoryCache_set ==
    /\ program = "InMemoryCache"
    /\ \E key \in CacheKeys, value \in CacheValues, life \in Ttls :
         /\ cache' = cache_set(cache, key, value, now, life)
         /\ input' = {e \in input : e.key # key}
                          \cup {[key |-> key, value |-> value, time |-> now, ttl |-> life]}
    /\ UNCHANGED <<outside_cache, now, output>>

\* await cache.get(key)
InMemoryCache_get ==
    /\ program = "InMemoryCache"
    /\ \E key \in CacheKeys :
         /\ output' = {[impl |-> "get",
                        value |-> [key |-> key, odd |-> odd_get,
                                   result |-> cache_get(cache, key, now)]]}
         /\ cache' = cache_after_get(cache, key, now)
    /\ UNCHANGED <<outside_cache, now, input>>

\* await cache.delete(key)
InMemoryCache_delete ==
    /\ program = "InMemoryCache"
    /\ \E key \in CacheKeys :
         /\ cache' = cache_delete(cache, key)
         /\ input' = {e \in input : e.key # key}
    /\ UNCHANGED <<outside_cache, now, output>>

\* await cache.clear()
InMemoryCache_clear ==
    /\ program = "InMemoryCache"
    /\ cache' = cache_clear(cache)
    /\ input' = {}
    /\ UNCHANGED <<outside_cache, now, output>>

\* time passes between two operations
InMemoryCache_tick ==
    /\ program = "InMemoryCache"
    /\ now + TimeStep <= MaxNow
    /\ now' = now + TimeStep
    /\ UNCHANGED <<outside_cache, cache, input, output>>

NextCache ==
    \/ InMemoryCache_set
    \/ InMemoryCache_get
    \/ InMemoryCache_delete
    \/ InMemoryCache_clear
    \/ InMemoryCache_tick

SpecCache == InitCache /\ [][NextCache]_vars

\* the request ids the release is applied to
ReleaseIds == {get_request_id(u, t) : u \in Users, t \in {<<>>, <<97>>}}

\* active_requests.discard(request_id) applied to a set and an id
InitDiscard ==
    /\ program = "active_requests.discard"
    /\ bot_token = FALSE
    /\ available = FALSE
    /\ Idle
    /\ input \in {[active |-> S, request_id |-> x] : S \in SUBSET ReleaseIds, x \in ReleaseIds}
    /\ output = {}

\* the finally block of process_translation run once
release_once ==
    returns("active_requests.discard", "once",
            [raised |-> discard_raises(input.active, input.request_id),
             set |-> discard(input.active, input.request_id)])

\* the id released a second time
release_twice ==
    LET once == discard(input.active, input.request_id) IN
    returns("active_requests.discard", "twice",
            [raised |-> discard_raises(input.active, input.request_id)
                            \/ discard_raises(once, input.request_id),
             set |-> discard(once, input.request_id)])

NextDiscard == release_once \/ release_twice

SpecDiscard == InitDiscard /\ [][NextDiscard]_vars

\* the calls of main.py whose payload carries the trigger_id (views.update
\* carries the view_id)
trigger_id_calls == {"views.open"}

\* the calls of api/slack.py whose payload carries the trigger_id: views.open
\* of the processing and input modals, views.push of the results and of the
\* error view
api_trigger_id_calls == {"views.open", "views.push", "views.push error"}

\* ------------------------------------------------------------------ claims

\* main.py: admitted and not yet released
InFlight(p) ==
    pc[p] \in {"open_wait", "responded", "translate_wait", "update_wait", "send_wait"}

\* main.py: admitted with a non-empty text
AdmittedNonEmpty(p) ==
    /\ log[p] # <<>>
    /\ log[p][1].op = "admit"
    /\ cmd[p].text # <<>>

Refused(l) == l = <<Ev0("refused")>>

\* api/slack.py: admitted
ApiAdmitted(p) == api_log[p] # <<>> /\ api_log[p][1].op = "admit"

\* api/slack.py: admitted with a non-blank text and not yet released
ApiInFlight(p) == api_pc[p] \in {"show_modal", "ack", "thread", "deliver", "finally"}

\* api/slack.py: a handler or worker that will still discard its id
ApiWillRelease(p) ==
    api_pc[p] \in {"show_modal", "ack", "thread", "deliver", "finally",
                   "input_modal", "empty_discard"}

\* no message call of the log comes before an update call of it
MessageNotBeforeUpdate(l, updates) ==
    \A i, j \in 1..Len(l) :
        (i < j /\ l[i].op = "message") => l[j].op \notin updates

\* C1: in main.py no two lifecycles with the same request id are admitted and
\* not yet released at the same time, under every interleaving; the id of a
\* lifecycle in flight is registered, so a second command with the same
\* user_id and stripped text is refused
C1_OneLifecyclePerId ==
    \A p, q \in Req :
        /\ InFlight(p) => request_id_of(p) \in active_requests
        /\ (p # q /\ InFlight(p) /\ InFlight(q)) => request_id_of(p) # request_id_of(q)

\* C1 witness: a duplicate was refused while the original is in flight
C1_Witness ==
    \E p, q \in Req :
        /\ p # q
        /\ InFlight(p)
        /\ pc[q] = "done"
        /\ Refused(log[q])
        /\ request_id_of(q) = request_id_of(p)

\* C2: in api/slack.py at most one of two concurrently handled commands with
\* the same user_id and text is admitted (check and insertion are serialized)
C2_ApiOneAdmittedPerId ==
    \A p, q \in Req :
        (p # q /\ ApiInFlight(p) /\ ApiInFlight(q))
            => api_request_id_of(p) # api_request_id_of(q)

\* C3: a refused duplicate is answered with HTTP 200 and an empty body and
\* nothing else happens for it (no dialog, no translation call, no message)
C3_DuplicateEmptyAck ==
    \A p \in Req :
        /\ (pc[p] = "done" /\ Refused(log[p]))
              => (response[p].status = 200 /\ response[p].body = ""
                  /\ view_id[p] = NoneView)
        /\ (api_pc[p] = "done" /\ Refused(api_log[p]) /\ Len(api_responses[p]) = 1)
              => (api_responses[p][1].status = 200 /\ ~api_modal[p])

\* C4: in main.py every admitted command with a non-empty text has its id
\* removed exactly once, as the last step of its lifecycle, whatever the
\* outcomes of views.open, the upstream call, views.update and the message;
\* and every admitted lifecycle ends (no id stays registered forever)
C4_ReleasedExactlyOnce ==
    /\ [](\A p \in Req :
            /\ Count(log[p], "release") <= 1
            /\ (pc[p] = "done" /\ AdmittedNonEmpty(p)) =>
                  /\ Count(log[p], "release") = 1
                  /\ log[p][Len(log[p])].op = "release"
                  /\ request_id_of(p) \in active_requests =>
                         \E q \in Req \ {p} :
                             InFlight(q) /\ request_id_of(q) = request_id_of(p))
    /\ \A p \in Req : InFlight(p) ~> (pc[p] = "done")

\* C4 witness: a lifecycle whose views.update raised and whose message was
\* sent has ended and its id is gone
C4_Witness ==
    \E p \in Req :
        /\ pc[p] = "done"
        /\ AdmittedNonEmpty(p)
        /\ Count(log[p], "views.update -> raise") = 1
        /\ request_id_of(p) \notin active_requests

\* C5: in api/slack.py every admitted command whose handling has ended has
\* released its id, on every exit path of do_POST
C5_ApiReleasedOnEveryExit ==
    \A p \in Req :
        (api_pc[p] = "done" /\ ApiAdmitted(p)) => Count(api_log[p], "release") = 1

\* C6: once the lifecycle of an admitted command has ended, a new /translate
\* command with the same user_id and text is admitted again
C6_ReadmittedAfterEnd ==
    [][\A p, q \in Req :
         /\ (/\ p # q
             /\ pc[p] = "done" /\ log[p] # <<>> /\ log[p][1].op = "admit"
             /\ \A r \in Req : InFlight(r) => request_id_of(r) # request_id_of(p)
             /\ pc[q] = "idle" /\ pc'[q] # "idle"
             /\ cmd'[q].command = "/translate"
             /\ get_request_id(cmd'[q].user_id, cmd'[q].text) = request_id_of(p))
            => ~Refused(log'[q])
         /\ (/\ p # q
             /\ api_pc[p] = "done" /\ ApiAdmitted(p)
             /\ strip(api_cmd[p].text) # <<>>
             /\ \A r \in Req :
                  (ApiWillRelease(r) \/ api_pc[r] = "add")
                      => api_request_id_of(r) # api_request_id_of(p)
             /\ api_pc[q] = "idle" /\ api_pc'[q] # "idle"
             /\ api_cmd'[q].command = "/translate"
             /\ get_request_id(api_cmd'[q].user_id, api_cmd'[q].text)
                    = api_request_id_of(p))
            => ~Refused(api_log'[q])]_vars

C8_FallbackAfterFailedUpdate ==
    \A p \in Req :
        /\ \A i \in 1..Len(log[p]) :
             log[p][i].op \in {"views.update -> not_ok", "views.update -> raise"} =>
                /\ i < Len(log[p])
                /\ log[p][i + 1] =
                      Ev("message", <<>>, cmd[p].response_url, cmd[p].text, translated_text[p])
                /\ Count(log[p], "message") = 1
        /\ (/\ view_id[p] # NoneView
            /\ pc[p] \in {"send_wait", "done"}
            /\ Count(log[p], "views.update") = 0)
           => Count(log[p], "message") = 1

\* C8 witness: views.update raised (or timed out) for an opened dialog and
\* the lifecycle went on
C8_Witness ==
    \E p \in Req :
        /\ view_id[p] # NoneView
        /\ cmd[p].response_url = "R1"
        /\ Count(log[p], "views.update -> raise") = 1
        /\ pc[p] = "done"

\* C9: in api/slack.py, when the processing dialog was opened and the update
\* with the result failed, the result is sent as a message to the
\* response_url of the command
C9_ApiFallbackAfterFailedUpdate ==
    \A p \in Req :
        (/\ api_pc[p] \in {"finally", "done"}
         /\ api_modal[p]
         /\ Count(api_log[p], "log: failed to update modal") > 0
         /\ api_cmd[p].response_url # "None")
        => Count(api_log[p], "message") >= 1

\* C10: per admitted command at most one dialog update and at most one
\* message are made, and the message never comes before the dialog update
C10_AtMostTwoDeliveries ==
    \A p \in Req :
        /\ Count(log[p], "views.update") <= 1
        /\ Count(log[p], "message") <= 1
        /\ MessageNotBeforeUpdate(log[p], {"views.update"})
        /\ Count(api_log[p], "views.push") + Count(api_log[p], "views.push error") <= 1
        /\ Count(api_log[p], "message") <= 1
        /\ MessageNotBeforeUpdate(api_log[p], {"views.push", "views.push error"})

\* C10 witness: a lifecycle that made both delivery calls, update then message
C10_Witness ==
    \E p \in Req :
        /\ pc[p] = "done"
        /\ Count(log[p], "views.update") = 1
        /\ Count(log[p], "message") = 1

\* C11: for each admitted command (and each call of the src package's
\* translate) the upstream chat.completions.create call is made at most once;
\* when it raises or times out no second call follows and translate()
\* returns its fallback text, which is what the next delivery call carries
C11_UpstreamCalledOnce ==
    \A p \in Req :
        /\ Count(log[p], "translate") <= 1
        /\ Count(api_log[p], "translate") <= 1
        /\ Count(bot_log[p], "translate") <= 1
        /\ \A i \in 1..Len(log[p]) :
             log[p][i].op = "translate -> raise" =>
                /\ i < Len(log[p])
                /\ log[p][i + 1].op \in {"views.update", "message"}
                /\ log[p][i + 1].translated = translate_fallback(cmd[p].text)
        /\ Count(api_log[p], "translate -> raise") = 1 =>
              api_translated[p] = api_translate_fallback(strip(api_cmd[p].text))
        /\ Count(bot_log[p], "translate -> raise") = 1 =>
              bot_translated[p] = bot_translate_error

\* C11 witness: the upstream call of an admitted command raised and its
\* lifecycle has ended after that one call
C11_Witness ==
    \E p \in Req :
        /\ pc[p] = "done"
        /\ Count(log[p], "translate") = 1
        /\ Count(log[p], "translate -> raise") = 1

\* the outcomes of the upstream call that are no content: an exception (a
\* timeout included) and an answer whose content is None
NoContent == {"translate -> raise", "translate -> none"}

\* C12: an exception, a timeout or a content-less answer of the upstream
\* call never leaves translate(): translate() returns a non-empty text, the
\* next step of the lifecycle is its delivery call with that text, and the
\* lifecycle ends by releasing its id
C12_TranslateNeverRaises ==
    \A p \in Req :
        /\ \A i \in 1..Len(log[p]) :
             log[p][i].op \in NoContent =>
                /\ i < Len(log[p])
                /\ log[p][i + 1].op \in {"views.update", "message"}
                /\ truthy(log[p][i + 1].translated)
                /\ log[p][i + 1].translated # error_text
                /\ pc[p] = "done" =>
                      /\ log[p][Len(log[p])].op = "release"
                      /\ Count(log[p], "release") = 1
        /\ \A i \in 1..Len(api_log[p]) :
             api_log[p][i].op \in NoContent =>
                /\ truthy(api_translated[p])
                /\ api_pc[p] \in {"deliver", "finally", "done"}
                /\ api_pc[p] = "done" =>
                      /\ api_log[p][Len(api_log[p])].op = "release"
                      /\ Count(api_log[p], "release") = 1
                      /\ api_modal[p] => Count(api_log[p], "views.push") = 1
                      /\ (~api_modal[p] /\ api_cmd[p].response_url # "None") =>
                            Count(api_log[p], "message") = 1

\* C12 witness: the upstream answered with no content, translate() returned
\* its text, the dialog was updated with it and the id was released
C12_Witness ==
    \E p \in Req :
        /\ pc[p] = "done"
        /\ Count(log[p], "translate -> none") = 1
        /\ Count(log[p], "views.update") = 1
        /\ request_id_of(p) \notin active_requests

\* C13: when the upstream call succeeds with empty or whitespace-only
\* content, what is delivered (dialog update or message) is a placeholder
\* text: no delivery call of main.py or api/slack.py carries an empty or
\* whitespace-only translated text
C13_BlankNeverDelivered ==
    \A p \in Req :
        /\ \A i \in 1..Len(log[p]) :
             log[p][i].op \in {"views.update", "message"} =>
                ~is_blank(log[p][i].translated)
        /\ \A i \in 1..Len(api_log[p]) :
             api_log[p][i].op \in {"views.push", "message"} =>
                ~is_blank(api_log[p][i].translated)

\* C14: for an admitted command the HTTP response is returned (main.py) or
\* written (api/slack.py) before translate() is called, and translate()
\* runs in the background task / worker thread: every translate call of a
\* call log comes after the response of that command, and a background task
\* or thread is only ever running for a command that was answered
C14_AckBeforeTranslate ==
    \A p \in Req :
        /\ pc[p] \in {"translate_wait", "update_wait", "send_wait"} =>
              response[p] = EmptyResponse
        /\ \A i \in 1..Len(log[p]) :
             log[p][i].op = "translate" =>
                \E j \in 1..(i - 1) : log[p][j].op = "response"
        /\ api_pc[p] \in {"thread", "deliver", "finally"} =>
              /\ Len(api_responses[p]) = 1
              /\ api_responses[p][1].status = 200
        /\ \A i \in 1..Len(api_log[p]) :
             api_log[p][i].op = "translate" =>
                \E j \in 1..(i - 1) : api_log[p][j].op = "ack"

\* C14 witness: the upstream call of a command is pending and the command
\* has its response
C14_Witness ==
    \E p \in Req :
        /\ pc[p] = "translate_wait"
        /\ response[p] = EmptyResponse
        /\ Count(log[p], "translate") = 1

\* the platform's limit on the time to the response of a command
Deadline == 3

\* C15: the response to an admitted /translate command is returned within
\* the platform's deadline whatever the latency of views.open, up to the
\* timeout of that call (10 in main.py, 2 in api/slack.py)
C15_ResponseWithinDeadline ==
    \A p \in Req :
        /\ pc[p] = "responded" => elapsed[p] <= Deadline
        /\ api_pc[p] = "ack" => api_elapsed[p] <= Deadline

IsUrlVerification(c) ==
    c.content_type = JsonType /\ c.json.valid /\ c.json.type = "url_verification"

\* C17: a JSON POST of type url_verification is answered with its challenge
\* in the one step that receives it, and has no other effect:
\* active_requests is unchanged and no call (dialog, translation, message)
\* is made or started for it
C17_UrlVerificationOnly ==
    [][\A p \in Req :
         /\ (pc[p] = "idle" /\ pc'[p] # "idle" /\ IsUrlVerification(cmd'[p]))
            => /\ pc'[p] = "done"
               /\ response'[p] = ChallengeResponse(cmd'[p].json.challenge)
               /\ active_requests' = active_requests
               /\ log' = log
               /\ view_id' = view_id
               /\ translated_text' = translated_text
         /\ (api_pc[p] = "idle" /\ api_pc'[p] # "idle" /\ IsUrlVerification(api_cmd'[p]))
            => /\ api_pc'[p] = "done"
               /\ api_responses'[p] = <<ChallengeAck(api_cmd'[p].json.challenge)>>
               /\ api_active_requests' = api_active_requests
               /\ api_log' = api_log
               /\ api_modal' = api_modal
               /\ api_translated' = api_translated]_vars

\* C17 witness: a url_verification POST was answered with its challenge
\* while a translation of another command is in flight
C17_Witness ==
    \E p, q \in Req :
        /\ pc[p] = "done"
        /\ IsUrlVerification(cmd[p])
        /\ response[p] = ChallengeResponse("c1")
        /\ InFlight(q)
        /\ active_requests = {request_id_of(q)}

\* a POST whose body cannot be parsed: a JSON body that is no JSON text (or
\* no text at all), a form that yields no field, an interaction payload that
\* is no JSON text
Unparseable(c) ==
    \/ c.content_type = JsonType /\ ~c.json.valid
    \/ c = EmptyForm
    \/ c.content_type = FormType /\ c.payload = "invalid"

\* C18: a POST whose body cannot be parsed is answered with HTTP 200 and the
\* generic response, never with an error status, by main.py and by
\* api/slack.py (as far as writing the response itself does not fail), and
\* nothing is admitted, called or translated for it
C18_UnparseableAcknowledged ==
    \A p \in Req :
        /\ (pc[p] = "done" /\ Unparseable(cmd[p]))
           => /\ response[p] = EmptyResponse
              /\ log[p] = <<>>
        /\ (api_pc[p] = "done" /\ Unparseable(api_cmd[p]))
           => /\ api_responses[p] = <<DefaultResponse>>
                    \/ (api_responses[p] = <<ErrorResponse>> /\ api_cmd[p].json # Undecodable)
              /\ api_log[p] = <<>>

\* the text has a character of the Hangul syllable block U+AC00..U+D7A3
HasHangul(text) == \E i \in 1..Len(text) : text[i] \in 44032..55203

\* C19: detect_language returns 'ko' exactly for the texts with at least one
\* character in U+AC00..U+D7A3 and 'en' for every other text, the empty
\* string included, and the implementations of main.py, api/slack.py and
\* src/services/translation.py return the same tag for every text
C19_DetectLanguage ==
    /\ \A e \in output :
         e.value = IF HasHangul(input.text) THEN "ko" ELSE "en"
    /\ \A e, f \in output : e.value = f.value
    /\ (input.text = <<>>) => \A e \in output : e.value = "en"

\* C19 witness: the three implementations were applied to a text whose only
\* Hangul character is the first of the block, and answered 'ko'
C19_Witness ==
    /\ input.text = <<97, 44032>>
    /\ Cardinality(output) = 3
    /\ \A e \in output : e.value = "ko"

\* a block without its ``` delimiters
strip_delimiters(block) == SubSeq(block, 4, Len(block) - 3)

\* the texts of a sequence of blocks, delimiters stripped, joined in order
RECURSIVE joined(_)
joined(blocks) ==
    IF blocks = <<>> THEN <<>>
    ELSE strip_delimiters(Head(blocks)) \o joined(Tail(blocks))

\* C20: for every text and every max_chars (of at least 1) the chunks of
\* create_text_blocks (main.py, api/slack.py) and create_text_sections, with
\* their ``` delimiters stripped and joined in order, are the text itself
C20_ChunksRoundTrip ==
    \A e \in output : joined(e.value) = input.text

\* C20 witness: the three routines split "a aa" with max_chars 3 at its
\* space, into "a" and " aa"
C20_Witness ==
    /\ input = [text |-> <<97, 32, 97, 97>>, max_chars |-> 3]
    /\ Cardinality(output) = 3
    /\ \A e \in output :
         e.value = <<code_block(<<97>>), code_block(<<32, 97, 97>>)>>

\* main.py: everything the lifecycle of command p owns
lifecycle(p) ==
    <<pc[p], cmd[p], view_id[p], translated_text[p], response[p], site[p], stage[p], log[p]>>

\* api/slack.py: everything the handling of command p owns
api_lifecycle(p) ==
    <<api_pc[p], api_cmd[p], api_modal[p], api_translated[p], api_responses[p], api_log[p]>>

C22_ReleaseIdempotent ==
    program = "active_requests.discard" =>
        \A e, f \in output :
            /\ ~e.value.raised
            /\ input.request_id \notin input.active => e.value.set = input.active
            /\ input.request_id \notin e.value.set
            /\ e.value.set = f.value.set

\* C22 witness: an id that was registered has been released once and twice
C22_Witness ==
    /\ program = "active_requests.discard"
    /\ input.request_id \in input.active
    /\ input.active # {input.request_id}
    /\ {e.impl : e \in output} = {"once", "twice"}

\* C23: the id of an admitted command is in active_requests during the whole
\* translation call and during every delivery call of its lifecycle, and it
\* is removed only after the last delivery call has returned (main.py, and
\* the worker threads of api/slack.py)
C23_RegisteredUntilDelivered ==
    \A p \in Req :
        /\ pc[p] \in {"translate_wait", "update_wait", "send_wait"}
              => request_id_of(p) \in active_requests
        /\ Count(log[p], "release") = 1 => pc[p] = "done"
        /\ api_pc[p] \in {"thread", "deliver", "finally"}
              => api_request_id_of(p) \in api_active_requests
        /\ Count(api_log[p], "release") = 1 => api_pc[p] = "done"

\* C24: for each admitted command of main.py at most one delivery takes
\* effect: the message is not delivered (its post answered 200) when the
\* views.update of that command was carried out, whatever the caller saw of
\* the call
C24_OneDeliveryTakesEffect ==
    \A p \in Req :
        ~(/\ Count(log[p], "platform: view updated") >= 1
          /\ Count(log[p], "message -> 200") >= 1)

\* the calls of a log that are in a set of calls
CountIn(l, ops) == Cardinality({i \in 1..Len(l) : l[i].op \in ops})

\* C25: for each admitted command the trigger_id is presented to the platform
\* in at most one call, the one that opens the dialog; later dialog
\* operations carry the view id (main.py and api/slack.py)
C25_TokenUsedOnce ==
    \A p \in Req :
        /\ CountIn(log[p], trigger_id_calls) <= 1
        /\ CountIn(api_log[p], api_trigger_id_calls) <= 1

\* the log grew by a release in this step
Releases(l, m) == m # l /\ m # <<>> /\ m[Len(m)].op = "release"

\* C26: lifecycles with different request ids do not interfere, under every
\* interleaving: a command is refused only when its own id is registered,
\* and a step removes from active_requests only the id of the lifecycle that
\* releases in that step (main.py and api/slack.py)
C26_DifferentIdsIndependent ==
    [][/\ \A q \in Req :
            /\ (log[q] = <<>> /\ Refused(log'[q])) =>
                  get_request_id(cmd'[q].user_id, cmd'[q].text) \in active_requests
            /\ (api_log[q] = <<>> /\ Refused(api_log'[q])) =>
                  get_request_id(api_cmd'[q].user_id, api_cmd'[q].text)
                      \in api_active_requests
       /\ \A id \in active_requests \ active_requests' :
            \E p \in Req : Releases(log[p], log'[p]) /\ request_id_of(p) = id
       /\ \A id \in api_active_requests \ api_active_requests' :
            \E p \in Req : Releases(api_log[p], api_log'[p]) /\ api_request_id_of(p) = id
       /\ \A p, q \in Req :
            (/\ InFlight(q)
             /\ request_id_of(q) # request_id_of(p)
             /\ Releases(log[p], log'[p]))
            => request_id_of(q) \in active_requests']_vars

\* C26 witness: of two lifecycles with different ids that were in flight
\* together one has released and the other is still in flight and registered
C26_Witness ==
    \E p, q \in Req :
        /\ request_id_of(p) # request_id_of(q)
        /\ pc[p] = "done"
        /\ Count(log[p], "translate") = 1
        /\ Count(log[p], "release") = 1
        /\ pc[q] \in {"translate_wait", "update_wait", "send_wait"}
        /\ request_id_of(q) \in active_requests

\* C27: every upstream translation call is bounded by a timeout (main.py,
\* api/slack.py, services/translation.py), so no lifecycle is left waiting
\* for an upstream that never answers, its request id still registered
C27_UpstreamCallBounded ==
    \A p \in Req : pc[p] # "hung" /\ api_pc[p] # "hung" /\ bot_pc[p] # "hung"

\* some call of the log with operation `first` comes before position i
Preceded(l, i, first) == \E j \in 1..(i - 1) : l[j].op = first

\* C28: handle_translate_command (handlers/command.py) does no translation
\* work before it uses the trigger_id: the views.open call of a command is
\* issued before its translation call starts, and the translation starts
\* only after the response to the command went out
C28_DialogBeforeTranslation ==
    \A p \in Req : \A i \in 1..Len(bot_log[p]) :
        bot_log[p][i].op = "translate" =>
            /\ Preceded(bot_log[p], i, "views.open")
            /\ Preceded(bot_log[p], i, "response")

\* C29: translate of services/translation.py makes no upstream call and
\* returns its input text unchanged whenever the source language (given or
\* detected) equals the target language (given or defaulted); a defaulted
\* target differs from the source: 'en' for 'ko', 'ko' for any other source
C29_SameLanguageShortCircuit ==
    program = "translate" =>
        LET source == source_of(input.text, input.source_lang)
            target == target_of(source, input.target_lang)
        IN /\ input.target_lang = "None" =>
                 /\ source # target
                 /\ target = (IF source = "ko" THEN "en" ELSE "ko")
           /\ \A e \in output :
                 source = target =>
                     /\ e.value.calls = 0
                     /\ e.value.value = Plain(input.text)

\* the 0-based position in the text at which chunk k of a list of blocks
\* starts (the chunks are consecutive slices)
RECURSIVE chunk_start(_, _)
chunk_start(blocks, k) ==
    IF k = 1 THEN 0
    ELSE chunk_start(blocks, k - 1) + Len(strip_delimiters(blocks[k - 1]))

\* the space and the newline character
BreakChars == {32, 10}

\* C30: for a text longer than max_chars, every chunk but the last ends at
\* the last space or newline character of its window, whenever the window
\* has one after its first position; space and newline both count, in
\* create_text_blocks of main.py and in create_text_blocks and
\* create_text_sections of api/slack.py
C30_BreakAtSpaceOrNewline ==
    program = "create_text_blocks" =>
        \A e \in output :
            Len(input.text) > input.max_chars =>
                \A k \in 1..(Len(e.value) - 1) :
                    LET s == chunk_start(e.value, k)
                        limit == min2(s + input.max_chars, Len(input.text))
                        breaks == {i \in (s + 1)..(limit - 1) : input.text[i + 1] \in BreakChars}
                        end == s + Len(strip_delimiters(e.value[k]))
                    IN breaks # {} => (end \in breaks /\ \A i \in breaks : i <= end)

\* GET /health of main.py: what it reports of the registry and the service
health == [active_requests |-> Cardinality(active_requests),
           translation_service |-> available]

\* C31: in main.py active_requests is at every moment exactly the set of the
\* ids of the commands that were admitted and whose lifecycle has not ended;
\* when no handler and no background task is running it is empty and
\* /health reports 0 active requests
C31_ActiveRequestsExact ==
    program = "main.py" =>
        /\ active_requests = {request_id_of(p) : p \in {q \in Req : InFlight(q)}}
        /\ (\A p \in Req : ~InFlight(p)) => health.active_requests = 0

\* C31 witness: every command was admitted with a text, translated and
\* released, nothing is running any more and /health reports 0
C31_Witness ==
    /\ program = "main.py"
    /\ \A p \in Req :
         /\ pc[p] = "done"
         /\ AdmittedNonEmpty(p)
         /\ Count(log[p], "release") = 1
    /\ health.active_requests = 0

\* C32: a /translate command with an empty or whitespace-only text causes no
\* translation call and no message, and leaves active_requests as it was:
\* its id is added and removed again within the handler call, whether or
\* not the input dialog could be opened (main.py and api/slack.py)
C32_EmptyTextNoEffect ==
    \A p \in Req :
        /\ (pc[p] = "done" /\ log[p] # <<>> /\ log[p][1].op = "admit" /\ cmd[p].text = <<>>)
              => /\ log[p] = <<Ev0("admit"), Ev0("release")>>
                 /\ request_id_of(p) \in active_requests =>
                        \E q \in Req \ {p} :
                            InFlight(q) /\ request_id_of(q) = request_id_of(p)
        /\ (api_pc[p] = "done" /\ ApiAdmitted(p) /\ strip(api_cmd[p].text) = <<>>)
              => /\ Count(api_log[p], "translate") = 0
                 /\ Count(api_log[p], "message") = 0
                 /\ Count(api_log[p], "release") = 1
                 /\ api_request_id_of(p) \in api_active_requests =>
                        \E q \in Req \ {p} :
                            /\ api_request_id_of(q) = api_request_id_of(p)
                            /\ (ApiWillRelease(q) \/ api_pc[q] = "add")

\* C33: do_POST of api/slack.py writes exactly one HTTP response for every
\* POST, on every path, the paths on which an exception is raised in the
\* /translate branch after the acknowledgment was written included
C33_ExactlyOneResponse ==
    \A p \in Req :
        /\ Len(api_responses[p]) <= 1
        /\ api_pc[p] \in {"thread", "deliver", "finally", "hung", "done"}
              => Len(api_responses[p]) = 1

\* the names of the chunking routines
ChunkImpls ==
    {"main.py create_text_blocks", "api/slack.py create_text_blocks",
     "api/slack.py create_text_sections", "api/slack.py _show_translation_modal"}

\* C34: the chunking loop ends for every text and every max_chars >= 1:
\* every iteration produces a non-empty chunk, so the start position grows
\* each time and the loop makes at most one iteration per character; every
\* chunk is at most max_chars long, also for a text without whitespace and
\* for a window whose only whitespace is its first character
C34_ChunkingTerminates ==
    \A e \in output :
        (program = "create_text_blocks" /\ Len(input.text) > input.max_chars) =>
            /\ Len(e.value) <= Len(input.text)
            /\ \A k \in 1..Len(e.value) :
                  /\ Len(strip_delimiters(e.value[k])) >= 1
                  /\ Len(strip_delimiters(e.value[k])) <= input.max_chars
                  /\ chunk_start(e.value, k) < Len(input.text)

\* C34 witness: a text of four characters whose only whitespace is its
\* first character was cut with max_chars 3 by every routine
C34_Witness ==
    /\ program = "create_text_blocks"
    /\ input.text = <<32, 97, 97, 97>>
    /\ input.max_chars = 3
    /\ {e.impl : e \in output} = ChunkImpls
    /\ \A e \in output : Len(e.value) = 2

\* the cache holds an entry for the key that has not expired at time t
Unexpired(c, key, t) == \E e \in c : e.key = key /\ e.expires > t

\* C35: when the cache holds an unexpired entry for the text of a command,
\* the handler takes the cached value and makes no upstream call; it goes on
\* to translate only on a miss (handlers/command.py)
C35_CachedNoUpstream ==
    [][\A p \in Req :
         (/\ bot_pc[p] = "cache_get"
          /\ bot_pc'[p] # "cache_get"
          /\ Unexpired(cache, cache_key(bot_cmd[p].text), now))
         => /\ bot_pc'[p] = "views_open"
            /\ \E e \in cache :
                 /\ e.key = cache_key(bot_cmd[p].text)
                 /\ bot_translated'[p] = e.value]_vars

\* C37: the cache only ever holds results of successful upstream
\* translations: the text translate returns after an upstream failure or
\* without a client is never written to it
C37_OnlySuccessCached ==
    \A e \in cache :
        /\ e.value # bot_translate_error
        /\ e.value # bot_translate_unavailable(e.key)

\* the latest set of a key is still in force at time t
InForce(sets, key, t) == \E e \in sets : e.key = key /\ t < e.time + e.ttl

\* C36: InMemoryCache.get returns the value of the latest set of a key
\* exactly while the time is strictly before that set's time plus its ttl,
\* and None from then on; the get that finds an entry expired removes it;
\* so after any sequence of set, get, delete and clear no expired value is
\* returned
C36_CacheExpiry ==
    [][(program = "InMemoryCache" /\ output' # output) =>
          \A r \in output' :
              LET key == r.value.key
                  result == r.value.result
              IN /\ InForce(input, key, now) =>
                       /\ ~result.none
                       /\ \E e \in input : e.key = key /\ e.value = result.value
                 /\ ~InForce(input, key, now) =>
                       /\ result.none
                       /\ \A e \in cache' : e.key # key]_vars

\* C36 witness: a get made exactly at the expiry time of the latest set of
\* its key returned None, and the entry is gone
C36_Witness ==
    /\ program = "InMemoryCache"
    /\ \E r \in output : \E e \in input :
         /\ e.key = r.value.key
         /\ now = e.time + e.ttl
         /\ e.value = Plain(<<72>>)
         /\ r.value.result.none
         /\ \A c \in cache : c.key # e.key

\* the sum of the per-user counters
RECURSIVE SumCounts(_)
SumCounts(S) ==
    IF S = {} THEN 0
    ELSE LET e == CHOOSE x \in S : TRUE IN e.count + SumCounts(S \ {e})

\* the counter of a user, 0 while the user has none
CountOf(st, user) ==
    SumCounts({e \in st.user_translations : e.user = user})

\* C38: after any sequence of handled commands, modal submissions,
\* mentions, direct messages and reactions, stats['total_translations'] is
\* the sum of the per-user counters of stats['user_translations'], and no
\* counter ever decreases
C38_StatsConsistent ==
    /\ [](stats.total_translations = SumCounts(stats.user_translations))
    /\ [][/\ stats'.total_translations >= stats.total_translations
          /\ \A user \in Users : CountOf(stats', user) >= CountOf(stats, user)]_vars

\* C38 witness: a mention that was translated and a reaction to the same
\* text that was served from the cache, by two users, have both been counted
C38_Witness ==
    /\ program = "src/bot.py"
    /\ stats.total_translations = 2
    /\ \A user \in Users : CountOf(stats, user) = 1
    /\ \E p, q \in Req :
         /\ bot_pc[p] = "done" /\ bot_cmd[p].command = "reaction_added"
         /\ Count(bot_log[p], "translate") = 0
         /\ Count(bot_log[p], "chat.postMessage") = 1
         /\ bot_pc[q] = "done" /\ bot_cmd[q].command = "app_mention"
         /\ Count(bot_log[q], "translate") = 1

====
